---------------------------- MODULE Spec2Model ----------------------------
(***************************************************************************)
(* A model of seesv (csvql): SQL-like operations on one CSV file.          *)
(*                                                                         *)
(* Texts are sequences of one-character strings, so that splitting,        *)
(* trimming and number parsing are computed character by character as the  *)
(* Go code computes them.  A table cell is held as the text gota renders   *)
(* for it (Element.String()); a column carries the type gota detected.     *)
(* The input texts hold no float or boolean literals, so every column is   *)
(* of gota type Int or String.                                             *)
(***************************************************************************)
EXTENDS Integers, Sequences, FiniteSets, TLC

VARIABLES
    file,      \* the source CSV file on disk: [names, rows, header, export]
    before,    \* what the source file held when this invocation started
    pc,        \* "idle" | "loaded" | "done": position of runCSVQL
    opts,      \* cli.Options of the running invocation
    ops,       \* operations.CSVOperations
    ran,       \* the case the switch of runCSVQL took
    err,       \* the error kind runCSVQL returns ("" is nil)
    affected,  \* the row count Insert/Update/Delete reported (-1: none)
    out,       \* what the read path produced: [kind, print, results, footer]
    loads,     \* times the source file was read in this invocation
    writes,    \* times the source file was created anew in this invocation
    log,       \* the calls of this invocation, in order
    runs,      \* invocations started so far
    cond,      \* a condition text handed to the parser: [col, op, lit, pad]
    split      \* what the parser made of it: [column, operator, value]

vars == <<file, before, pc, opts, ops, ran, err, affected, out, loads, writes, log, runs,
          cond, split>>

---------------------------------------------------------------------------
(* Bounds *)

\* Rows of the CSV file before the first invocation.
MaxRows == 2

\* Invocations of the program on the same file.
MaxRuns == 2

---------------------------------------------------------------------------
(* Texts: Go strings as sequences of characters *)

\* The characters of the model in ASCII order; a character's position stands
\* for its byte value in comparisons.
Chars == <<" ", "!", "\"", "'", "(", ")", "*", "+", ",", "-",
           "0", "1", "2", "3", "4", "5", "6", "7", "8", "9",
           "<", "=", ">",
           "A", "B", "C", "D", "E", "F", "G", "H", "I", "J", "K", "L", "M",
           "N", "O", "P", "Q", "R", "S", "T", "U", "V", "W", "X", "Y", "Z",
           "_",
           "a", "b", "c", "d", "e", "f", "g", "h", "i", "j", "k", "l", "m",
           "n", "o", "p", "q", "r", "s", "t", "u", "v", "w", "x", "y", "z",
           "|">>

Digits == <<"0", "1", "2", "3", "4", "5", "6", "7", "8", "9">>
UpperLetters == <<"A", "B", "C", "D", "E", "F", "G", "H", "I", "J", "K", "L", "M",
                  "N", "O", "P", "Q", "R", "S", "T", "U", "V", "W", "X", "Y", "Z">>
LowerLetters == <<"a", "b", "c", "d", "e", "f", "g", "h", "i", "j", "k", "l", "m",
                  "n", "o", "p", "q", "r", "s", "t", "u", "v", "w", "x", "y", "z">>

IndexIn(c, seq) == IF \E i \in DOMAIN seq : seq[i] = c
                   THEN CHOOSE i \in DOMAIN seq : seq[i] = c
                   ELSE 0

Byte(c) == IndexIn(c, Chars)

IsDigit(c) == IndexIn(c, Digits) > 0

\* Byte-wise comparison of Go strings: a < b
RECURSIVE TextLess(_, _)
TextLess(a, b) ==
    IF b = <<>> THEN FALSE
    ELSE IF a = <<>> THEN TRUE
    ELSE IF Byte(Head(a)) < Byte(Head(b)) THEN TRUE
    ELSE IF Byte(Head(a)) > Byte(Head(b)) THEN FALSE
    ELSE TextLess(Tail(a), Tail(b))

\* strings.HasPrefix
HasPrefix(s, p) == Len(p) <= Len(s) /\ SubSeq(s, 1, Len(p)) = p

\* strings.HasSuffix
HasSuffix(s, p) == Len(p) <= Len(s) /\ SubSeq(s, Len(s) - Len(p) + 1, Len(s)) = p

\* strings.Index, 1-based; 0 when sub does not occur
Index(s, sub) ==
    LET at == {i \in 1..(Len(s) - Len(sub) + 1) : SubSeq(s, i, i + Len(sub) - 1) = sub}
    IN IF at = {} THEN 0 ELSE CHOOSE i \in at : \A j \in at : i <= j

\* strings.LastIndex, 1-based; 0 when sub does not occur
LastIndex(s, sub) ==
    LET at == {i \in 1..(Len(s) - Len(sub) + 1) : SubSeq(s, i, i + Len(sub) - 1) = sub}
    IN IF at = {} THEN 0 ELSE CHOOSE i \in at : \A j \in at : i >= j

\* strings.Contains
Contains(s, sub) == Index(s, sub) > 0

\* strings.SplitN(s, sep, 2) for a non-empty sep: one part when sep does not
\* occur, else the text before and the text after its first occurrence
SplitN2(s, sep) ==
    LET i == Index(s, sep)
    IN IF i = 0 THEN <<s>>
       ELSE <<SubSeq(s, 1, i - 1), SubSeq(s, i + Len(sep), Len(s))>>

\* strings.Split(s, sep) for a non-empty sep
RECURSIVE Split(_, _)
Split(s, sep) ==
    LET i == Index(s, sep)
    IN IF i = 0 THEN <<s>>
       ELSE <<SubSeq(s, 1, i - 1)>> \o Split(SubSeq(s, i + Len(sep), Len(s)), sep)

\* strings.Trim(s, cutset): leading and trailing characters of cutset removed
RECURSIVE TrimLeft(_, _)
TrimLeft(s, cutset) ==
    IF s # <<>> /\ Head(s) \in cutset THEN TrimLeft(Tail(s), cutset) ELSE s

RECURSIVE TrimRight(_, _)
TrimRight(s, cutset) ==
    IF s # <<>> /\ s[Len(s)] \in cutset
    THEN TrimRight(SubSeq(s, 1, Len(s) - 1), cutset) ELSE s

Trim(s, cutset) == TrimRight(TrimLeft(s, cutset), cutset)

\* strings.TrimSpace (the space is the only white space of the model)
TrimSpace(s) == Trim(s, {" "})

\* strings.Fields: the maximal runs of non-space characters
RECURSIVE Fields(_)
Fields(s) ==
    LET t == TrimLeft(s, {" "})
        i == Index(t, <<" ">>)
    IN IF t = <<>> THEN <<>>
       ELSE IF i = 0 THEN <<t>>
       ELSE <<SubSeq(t, 1, i - 1)>> \o Fields(SubSeq(t, i + 1, Len(t)))

\* strings.ToUpper / strings.ToLower
ToUpper(s) == [i \in 1..Len(s) |->
                 IF IndexIn(s[i], LowerLetters) > 0
                 THEN UpperLetters[IndexIn(s[i], LowerLetters)] ELSE s[i]]

ToLower(s) == [i \in 1..Len(s) |->
                 IF IndexIn(s[i], UpperLetters) > 0
                 THEN LowerLetters[IndexIn(s[i], UpperLetters)] ELSE s[i]]

\* The value of a run of decimal digits
RECURSIVE DigitsValue(_)
DigitsValue(s) ==
    IF s = <<>> THEN 0
    ELSE 10 * DigitsValue(SubSeq(s, 1, Len(s) - 1)) + (IndexIn(s[Len(s)], Digits) - 1)

\* The text after an optional sign
Unsigned(s) == IF s # <<>> /\ Head(s) \in {"+", "-"} THEN Tail(s) ELSE s

\* strconv.Atoi of s, body being s without its sign: at least one digit and
\* nothing else.  [ok, val]
AtoiBody(s, body) ==
    IF body # <<>> /\ \A i \in 1..Len(body) : IsDigit(body[i])
    THEN [ok |-> TRUE,
          val |-> IF Head(s) = "-" THEN 0 - DigitsValue(body) ELSE DigitsValue(body)]
    ELSE [ok |-> FALSE, val |-> 0]

\* strconv.Atoi
Atoi(s) == AtoiBody(s, Unsigned(s))

\* fmt.Sprint of an int
RECURSIVE NatText(_)
NatText(n) == IF n < 10 THEN <<Digits[n + 1]>>
              ELSE NatText(n \div 10) \o <<Digits[(n % 10) + 1]>>

Itoa(n) == IF n < 0 THEN <<"-">> \o NatText(0 - n) ELSE NatText(n)

---------------------------------------------------------------------------
(* The gota data frame, as far as the program uses it.                      *)
(* A frame is [names, types, rows, Err]; rows[i][j] is the rendering        *)
(* (Element.String()) of the element of row i in column j.                  *)
(*                                                                          *)
(* Where an operator uses the result of a call several times, the result is *)
(* handed to a second operator as a parameter (Atoi and AtoiBody, Insert    *)
(* and InsertParsed): the call is then evaluated once, as in the Go code.   *)

NaN == <<"N", "a", "N">>

\* An element is NA when it renders as NaN: a missing Int, or the text NaN.
IsNA(cell) == cell = NaN

\* The frame gota returns for an error: no columns, no rows, Err set.
ErrFrame == [names |-> <<>>, types |-> <<>>, rows |-> <<>>, Err |-> TRUE]

NoFrame == [names |-> <<>>, types |-> <<>>, rows |-> <<>>, Err |-> FALSE]

Nrow(df) == Len(df.rows)
Ncol(df) == Len(df.names)

\* dataframe.findType over the texts of one column (no float, no bool texts)
FindType(texts) ==
    IF \E i \in DOMAIN texts : texts[i] # <<>> /\ texts[i] # NaN /\ ~Atoi(texts[i]).ok
    THEN "string"
    ELSE IF \E i \in DOMAIN texts : texts[i] # <<>> /\ texts[i] # NaN THEN "int"
    ELSE "string"

\* intElement.Set of a text whose strconv.Atoi is a, rendered
IntText(text, a) == IF text # NaN /\ a.ok THEN Itoa(a.val) ELSE NaN

\* Element.Set of a text into an element of type t, rendered
SetElem(t, text) == IF t = "int" THEN IntText(text, Atoi(text)) ELSE text

ColumnOf(rows, j) == [i \in 1..Len(rows) |-> rows[i][j]]

\* The frame of the file's records, the columns being of the given types
TypedFrame(f, types) ==
    [names |-> f.names,
     types |-> types,
     rows  |-> [i \in 1..Len(f.rows) |->
                  [j \in 1..Len(f.names) |-> SetElem(types[j], f.rows[i][j])]],
     Err   |-> FALSE]

\* dataframe.ReadCSV of the source file: the first record names the columns,
\* each column gets the detected type and its texts are converted to it
ReadCSV(f) ==
    TypedFrame(f, [j \in 1..Len(f.names) |-> FindType(ColumnOf(f.rows, j))])

\* series.New(texts, series.String, name) for every header, dataframe.New
StringFrame(names, rows) ==
    [names |-> names, types |-> [j \in 1..Len(names) |-> "string"],
     rows |-> rows, Err |-> FALSE]

ColIndex(df, colname) == IndexIn(colname, df.names)

\* The rows of a sequence at the given positions, in the given order
RowsAt(rows, indices) == [k \in 1..Len(indices) |-> rows[indices[k]]]

\* The members of a set of positions, ascending
RECURSIVE Ascending(_)
Ascending(S) ==
    IF S = {} THEN <<>>
    ELSE Append(Ascending(S \ {CHOOSE x \in S : \A y \in S : y <= x}),
                CHOOSE x \in S : \A y \in S : y <= x)

\* DataFrame.Subset(indexes)
Subset(df, indices) ==
    IF df.Err THEN df ELSE [df EXCEPT !.rows = RowsAt(df.rows, indices)]

\* intElement comparison
IntCompare(a, comparator, b) ==
    CASE comparator = "=="  -> a = b
      [] comparator = "!="  -> a # b
      [] comparator = ">"   -> a > b
      [] comparator = "<"   -> a < b
      [] comparator = ">="  -> a >= b
      [] comparator = "<="  -> a <= b

\* stringElement comparison, lt and gt being a < b and a > b byte-wise
TextCompare(a, comparator, b, lt, gt) ==
    CASE comparator = "=="  -> a = b
      [] comparator = "!="  -> a # b
      [] comparator = ">"   -> gt
      [] comparator = "<"   -> lt
      [] comparator = ">="  -> ~lt
      [] comparator = "<="  -> ~gt

\* Element comparison of gota (series.Eq ... series.LessEq): an Int element
\* compares numerically, a String element byte-wise; NA never compares true
ElemCompare(t, cell, comparator, comp) ==
    IF IsNA(cell) \/ IsNA(comp) THEN FALSE
    ELSE IF t = "int" THEN IntCompare(Atoi(cell).val, comparator, Atoi(comp).val)
    ELSE TextCompare(cell, comparator, comp, TextLess(cell, comp), TextLess(comp, cell))

\* A sequence from its last member to its first
Reversed(seq) == [k \in 1..Len(seq) |-> seq[Len(seq) + 1 - k]]

\* Fault: the rows comparing true are kept last to first
FilterColumnReversed(df, j, comparator, comparando) ==
    Subset(df, Reversed(Ascending({i \in 1..Nrow(df) :
                            ElemCompare(df.types[j], df.rows[i][j], comparator,
                                        SetElem(df.types[j], comparando))})))

\* The rows of the frame whose element in column j compares true
FilterColumn(df, j, comparator, comparando) ==
    Subset(df, Ascending({i \in 1..Nrow(df) :
                            ElemCompare(df.types[j], df.rows[i][j], comparator,
                                        SetElem(df.types[j], comparando))}))

\* DataFrame.Filter(F{Colname, Comparator, Comparando}): the comparando is
\* converted to the column's type, the rows comparing true are kept
Filter(df, colname, comparator, comparando) ==
    IF df.Err THEN df
    ELSE IF ColIndex(df, colname) = 0 THEN ErrFrame
    ELSE FilterColumn(df, ColIndex(df, colname), comparator, comparando)

\* The frame of the columns at the given positions
ColumnsAt(df, columns, at) ==
    [names |-> columns,
     types |-> [k \in 1..Len(columns) |-> df.types[at[k]]],
     rows  |-> [i \in 1..Nrow(df) |-> [k \in 1..Len(columns) |-> df.rows[i][at[k]]]],
     Err   |-> FALSE]

\* Fault: the columns selected are put in the order they have in the frame
SelectColsInFrameOrder(df, columns) ==
    IF df.Err THEN df
    ELSE IF \E k \in DOMAIN columns : ColIndex(df, columns[k]) = 0 THEN ErrFrame
    ELSE ColumnsAt(df,
            RowsAt(df.names, Ascending({ColIndex(df, columns[k]) : k \in DOMAIN columns})),
            Ascending({ColIndex(df, columns[k]) : k \in DOMAIN columns}))

\* DataFrame.Select(columns) for distinct column names
SelectCols(df, columns) ==
    IF df.Err THEN df
    ELSE IF \E k \in DOMAIN columns : ColIndex(df, columns[k]) = 0 THEN ErrFrame
    ELSE ColumnsAt(df, columns, [k \in 1..Len(columns) |-> ColIndex(df, columns[k])])

\* indexedElements.Less of rows x and y on column j, and its sort.Reverse
Before(df, j, reverse, x, y) ==
    IF reverse THEN ElemCompare(df.types[j], df.rows[y][j], "<", df.rows[x][j])
    ELSE ElemCompare(df.types[j], df.rows[x][j], "<", df.rows[y][j])

\* sort.Stable of positions by the cells of column j: a position is put
\* before the first one it compares less than, so ties keep their order
RECURSIVE InsertSorted(_, _, _, _, _, _)
InsertSorted(sorted, x, df, j, reverse, k) ==
    IF k > Len(sorted) THEN Append(sorted, x)
    ELSE IF Before(df, j, reverse, x, sorted[k])
    THEN SubSeq(sorted, 1, k - 1) \o <<x>> \o SubSeq(sorted, k, Len(sorted))
    ELSE InsertSorted(sorted, x, df, j, reverse, k + 1)

RECURSIVE StableSort(_, _, _, _)
StableSort(indices, df, j, reverse) ==
    IF indices = <<>> THEN <<>>
    ELSE InsertSorted(StableSort(SubSeq(indices, 1, Len(indices) - 1), df, j, reverse),
                      indices[Len(indices)], df, j, reverse, 1)

\* Series.Order(reverse): the NA elements last, the others stably sorted
Order(df, j, reverse) ==
    StableSort(Ascending({i \in 1..Nrow(df) : ~IsNA(df.rows[i][j])}), df, j, reverse)
      \o Ascending({i \in 1..Nrow(df) : IsNA(df.rows[i][j])})

\* DataFrame.Arrange(Sort(column)) / Arrange(RevSort(column))
Arrange(df, column, reverse) ==
    IF df.Err THEN df
    ELSE IF ColIndex(df, column) = 0 THEN ErrFrame
    ELSE Subset(df, Order(df, ColIndex(df, column), reverse))

\* DataFrame.Concat(newRowDF), both frames having the same column names:
\* Series.Concat converts each text of the new row to the type of its column
Concat(df, newRow) ==
    IF df.Err THEN df
    ELSE [df EXCEPT !.rows =
            Append(df.rows, [j \in 1..Ncol(df) |-> SetElem(df.types[j], newRow[j])])]

---------------------------------------------------------------------------
(* operations.CSVOperations: the shared helpers.  o is the receiver,        *)
(* [FilePath, RawOutput, OutputFile, DataFrame, Headers].                   *)

\* ValidateColumns: nil ("") when every column is a header
ValidateColumns(o, columns) ==
    IF \E k \in DOMAIN columns : IndexIn(columns[k], o.Headers) = 0
    THEN "UnknownColumn" ELSE ""

\* ParseColumns: the headers for the empty text, else the trimmed parts
ParseColumns(o, colStr) ==
    IF colStr = <<>> THEN o.Headers
    ELSE [k \in 1..Len(Split(colStr, <<",">>)) |-> TrimSpace(Split(colStr, <<",">>)[k])]

\* Fault: the one-character operators are tried before the two-character ones
operatorsShortFirst ==
    << <<"=">>, <<">">>, <<"<">>, <<">", "=">>, <<"<", "=">>, <<"!", "=">> >>

\* The operators of parseAndApplyFilter in the order they are tried
operators == << <<">", "=">>, <<"<", "=">>, <<"!", "=">>, <<"=">>, <<">">>, <<"<">> >>

\* The first operator of the list, from position k on, that the text contains
RECURSIVE FirstOperator(_, _, _)
FirstOperator(condition, oplist, k) ==
    IF k > Len(oplist) THEN <<>>
    ELSE IF Contains(condition, oplist[k]) THEN oplist[k]
    ELSE FirstOperator(condition, oplist, k + 1)

\* The body of the parsing loop for the operator found: the parts of
\* strings.SplitN(condition, op, 2) trimmed, the quotes of the value cut
SplitCondition(parts, op) ==
    [column   |-> TrimSpace(parts[1]),
     operator |-> op,
     value    |-> Trim(TrimSpace(parts[2]), {"'", "\""})]

\* The parsing loop of parseAndApplyFilter on the trimmed condition, op being
\* the first operator of the list that it contains
ParseTrimmed(condition, op) ==
    IF op = <<>> THEN [column |-> <<>>, operator |-> <<>>, value |-> <<>>]
    ELSE SplitCondition(SplitN2(condition, op), op)

\* The parsing part of parseAndApplyFilter: [column, operator, value]
ParseCondition(text) ==
    ParseTrimmed(TrimSpace(text), FirstOperator(TrimSpace(text), operators, 1))

\* The series comparator the switch of parseAndApplyFilter picks
Comparator(operator) ==
    CASE operator = <<"=">>      -> "=="
      [] operator = <<"!", "=">> -> "!="
      [] operator = <<">">>      -> ">"
      [] operator = <<"<">>      -> "<"
      [] operator = <<">", "=">> -> ">="
      [] operator = <<"<", "=">> -> "<="

\* Fault: the column of the condition is not validated before the filter
FilterParsedUnvalidated(o, df, c) ==
    IF c.column = <<>> \/ c.operator = <<>>
    THEN [df |-> df, err |-> "MalformedCondition"]
    ELSE [df |-> Filter(df, c.column, Comparator(c.operator), c.value), err |-> ""]

\* parseAndApplyFilter after the parsing loop, c being what it parsed
FilterParsed(o, df, c) ==
    IF c.column = <<>> \/ c.operator = <<>>
    THEN [df |-> df, err |-> "MalformedCondition"]
    ELSE IF ValidateColumns(o, <<c.column>>) # ""
    THEN [df |-> df, err |-> "UnknownColumn"]
    ELSE [df |-> Filter(df, c.column, Comparator(c.operator), c.value), err |-> ""]

\* parseAndApplyFilter: [df, err]
parseAndApplyFilter(o, df, condition) == FilterParsed(o, df, ParseCondition(condition))

\* ApplyWhereCondition: [df, err]
ApplyWhereCondition(o, df, whereCondition) ==
    IF whereCondition = <<>> THEN [df |-> df, err |-> ""]
    ELSE parseAndApplyFilter(o, df, whereCondition)

\* ApplyOrderBy on the fields of the clause, direction being the lower-cased
\* second field, asc when there is none
OrderByFields(o, df, parts, direction) ==
    IF Len(parts) = 0 THEN [df |-> df, err |-> "EmptyOrderBy"]
    ELSE IF direction # <<"d", "e", "s", "c">> /\ direction # <<"a", "s", "c">>
    THEN [df |-> df, err |-> "InvalidDirection"]
    ELSE IF ValidateColumns(o, <<parts[1]>>) # ""
    THEN [df |-> df, err |-> "UnknownColumn"]
    ELSE [df |-> Arrange(df, parts[1], direction = <<"d", "e", "s", "c">>), err |-> ""]

\* Fault: the direction is taken as written, its letters not lowered
DirectionAsWritten(parts) == IF Len(parts) > 1 THEN parts[2] ELSE <<"a", "s", "c">>

\* The direction of the fields of an ORDER BY clause
Direction(parts) == IF Len(parts) > 1 THEN ToLower(parts[2]) ELSE <<"a", "s", "c">>

\* ApplyOrderBy: [df, err]
ApplyOrderBy(o, df, orderBy) ==
    IF orderBy = <<>> THEN [df |-> df, err |-> ""]
    ELSE OrderByFields(o, df, Fields(orderBy), Direction(Fields(orderBy)))

\* Fault: the last rows are kept, not the first
ApplyLimitLast(df, limit) ==
    IF limit <= 0 \/ limit >= Nrow(df) THEN df
    ELSE Subset(df, [i \in 1..limit |-> Nrow(df) - limit + i])

\* ApplyLimit
ApplyLimit(df, limit) ==
    IF limit <= 0 \/ limit >= Nrow(df) THEN df
    ELSE Subset(df, [i \in 1..limit |-> i])

\* What a file holds after SaveDataFrameToFile: os.Create empties it, then
\* either the bare rows are written, or WriteCSV writes the header and the
\* rows, or nothing when the frame carries an error.  [content, err]
SaveDataFrameToFile(df, includeHeaders) ==
    IF ~includeHeaders
    THEN [content |-> [names |-> <<>>, rows |-> df.rows, header |-> FALSE], err |-> ""]
    ELSE IF df.Err
    THEN [content |-> [names |-> <<>>, rows |-> <<>>, header |-> FALSE], err |-> "WriteError"]
    ELSE [content |-> [names |-> df.names, rows |-> df.rows, header |-> TRUE], err |-> ""]

\* SaveDataFrameToCSV
SaveDataFrameToCSV(df) == SaveDataFrameToFile(df, TRUE)

\* PrintDataFrame: [dest, content, shown].  dest is the file written ("" for
\* the terminal), content what that file then holds, shown the frame printed
PrintDataFrame(o, df) ==
    IF o.OutputFile # ""
    THEN [dest |-> o.OutputFile,
          content |-> SaveDataFrameToFile(df, ~o.RawOutput).content,
          shown |-> df]
    ELSE [dest |-> "", content |-> <<>>, shown |-> df]

---------------------------------------------------------------------------
(* INSERT, UPDATE, DELETE.  Each returns [err, steps, save, df, n]: the     *)
(* error kind, the calls made in order, whether SaveDataFrameToCSV ran,     *)
(* the frame handed to it, and the row count reported (-1: none; 0 with no  *)
(* save: the message that no rows match).                                   *)

\* A return before the save
Return(kind, steps, n) ==
    [err |-> kind, steps |-> steps, save |-> FALSE, df |-> NoFrame, n |-> n]

\* The save of a mutation and its return: the count is printed when the
\* save succeeded
SaveAndReturn(df, steps, n) ==
    [err |-> SaveDataFrameToCSV(df).err, steps |-> Append(steps, "SaveDataFrameToCSV"),
     save |-> TRUE, df |-> df,
     n |-> IF SaveDataFrameToCSV(df).err = "" THEN n ELSE -1]

\* A Go map[string]string as a function; a later key overwrites an earlier
MapPut(m, k, v) == [x \in (DOMAIN m) \union {k} |-> IF x = k THEN v ELSE m[x]]

EmptyMap == [x \in {} |-> <<>>]

\* The loop of ParseInsertValues / ParseUpdateValues over the assignments
\* from position k on: [ok, values]
RECURSIVE ParseAssignments(_, _, _)
ParseAssignments(assignments, k, values) ==
    IF k > Len(assignments) THEN [ok |-> TRUE, values |-> values]
    ELSE IF ~Contains(TrimSpace(assignments[k]), <<"=">>)
    THEN [ok |-> FALSE, values |-> EmptyMap]
    ELSE ParseAssignments(assignments, k + 1,
            MapPut(values,
                   TrimSpace(SplitN2(TrimSpace(assignments[k]), <<"=">>)[1]),
                   Trim(TrimSpace(SplitN2(TrimSpace(assignments[k]), <<"=">>)[2]),
                        {"'", "\""})))

\* ParseInsertValues: [ok, values]
ParseInsertValues(insertVals) ==
    ParseAssignments(Split(insertVals, <<",">>), 1, EmptyMap)

\* ParseUpdateValues: [ok, values]
ParseUpdateValues(updateVals) ==
    ParseAssignments(Split(updateVals, <<",">>), 1, EmptyMap)

\* ValidateInsertValues
ValidateInsertValues(o, values) ==
    IF \E column \in DOMAIN values : ValidateColumns(o, <<column>>) # ""
    THEN "UnknownColumn" ELSE ""

\* CreateInsertRow
CreateInsertRow(o, values) ==
    [i \in 1..Len(o.Headers) |->
        IF o.Headers[i] \in DOMAIN values THEN values[o.Headers[i]] ELSE <<>>]

\* AppendRowToDataFrame
AppendRowToDataFrame(o, df, newRow) == Concat(df, newRow)

\* Fault: the row is appended and saved before the columns are validated
InsertParsedLateCheck(o, parsed) ==
    IF ~parsed.ok
    THEN Return("InvalidAssignment", <<"ParseInsertValues">>, -1)
    ELSE [SaveAndReturn(
             AppendRowToDataFrame(o, o.DataFrame, CreateInsertRow(o, parsed.values)),
             <<"ParseInsertValues", "CreateInsertRow", "AppendRowToDataFrame">>, 1)
          EXCEPT !.err = ValidateInsertValues(o, parsed.values)]

\* Insert after ParseInsertValues, parsed being its result
InsertParsed(o, parsed) ==
    IF ~parsed.ok
    THEN Return("InvalidAssignment", <<"ParseInsertValues">>, -1)
    ELSE IF ValidateInsertValues(o, parsed.values) # ""
    THEN Return("UnknownColumn", <<"ParseInsertValues", "ValidateInsertValues">>, -1)
    ELSE SaveAndReturn(
            AppendRowToDataFrame(o, o.DataFrame, CreateInsertRow(o, parsed.values)),
            <<"ParseInsertValues", "ValidateInsertValues", "CreateInsertRow",
              "AppendRowToDataFrame">>,
            1)

\* Insert
Insert(o, insertVals) ==
    IF insertVals = <<>> THEN Return("EmptyInput", <<>>, -1)
    ELSE InsertParsed(o, ParseInsertValues(insertVals))

\* RowExistsInFiltered: some row of the filtered frame has, column by column,
\* the renderings of row rowIndex of the original frame
RowExistsInFiltered(originalDF, filteredDF, rowIndex) ==
    /\ rowIndex <= Nrow(originalDF)
    /\ \E i \in 1..Nrow(filteredDF) :
          \A j \in 1..Ncol(filteredDF) :
             filteredDF.rows[i][j] = originalDF.rows[rowIndex][j]

\* The loop of GetMatchingRowIndices, filtered being what ApplyWhereCondition
\* returned
MatchingIn(df, filtered) ==
    IF filtered.err # "" THEN <<>>
    ELSE Ascending({i \in 1..Nrow(df) : RowExistsInFiltered(df, filtered.df, i)})

\* GetMatchingRowIndices
GetMatchingRowIndices(o, df, whereCond) ==
    MatchingIn(df, ApplyWhereCondition(o, df, whereCond))

\* Fault: the new value is written to the column in every row
UpdateColumnValue(o, df, rowIndex, colIndex, newValue) ==
    StringFrame([j \in 1..Ncol(df) |-> o.Headers[j]],
                [i \in 1..Nrow(df) |->
                   [j \in 1..Ncol(df) |->
                      IF j = colIndex THEN newValue ELSE df.rows[i][j]]])

\* UpdateCellValue: every column rebuilt as a String series of the
\* renderings, with the one cell replaced
UpdateCellValue(o, df, rowIndex, colIndex, newValue) ==
    StringFrame([j \in 1..Ncol(df) |-> o.Headers[j]],
                [i \in 1..Nrow(df) |->
                   [j \in 1..Ncol(df) |->
                      IF i = rowIndex /\ j = colIndex THEN newValue ELSE df.rows[i][j]]])

\* The loops of PerformUpdate over matching row r from assigned column c on:
\* rows and cols are the matching rows and the positions of the assigned
\* headers
RECURSIVE UpdateCells(_, _, _, _, _, _, _)
UpdateCells(o, df, updates, rows, cols, r, c) ==
    IF r > Len(rows) THEN df
    ELSE IF c > Len(cols) THEN UpdateCells(o, df, updates, rows, cols, r + 1, 1)
    ELSE UpdateCells(o,
            UpdateCellValue(o, df, rows[r], cols[c], updates[o.Headers[cols[c]]]),
            updates, rows, cols, r, c + 1)

\* Fault: the count reported is the count of cell writes
UpdateMatchingCountsCells(o, originalDF, updates, matchingIndices) ==
    [df |-> UpdateCells(o, originalDF, updates, matchingIndices,
                Ascending({j \in 1..Len(o.Headers) : o.Headers[j] \in DOMAIN updates}),
                1, 1),
     rowsAffected |->
        Len(matchingIndices)
           * Cardinality({j \in 1..Len(o.Headers) : o.Headers[j] \in DOMAIN updates})]

\* PerformUpdate once GetMatchingRowIndices has returned
UpdateMatching(o, originalDF, updates, matchingIndices) ==
    [df |-> UpdateCells(o, originalDF, updates, matchingIndices,
                Ascending({j \in 1..Len(o.Headers) : o.Headers[j] \in DOMAIN updates}),
                1, 1),
     rowsAffected |-> Len(matchingIndices)]

\* PerformUpdate: [df, rowsAffected]
PerformUpdate(o, originalDF, filteredDF, updates, whereCond) ==
    UpdateMatching(o, originalDF, updates, GetMatchingRowIndices(o, originalDF, whereCond))

\* Update after PerformUpdate, done being its result
UpdatePerformed(done) ==
    SaveAndReturn(done.df,
                  <<"ParseUpdateValues", "ValidateColumns", "ApplyWhereCondition",
                    "PerformUpdate">>,
                  done.rowsAffected)

\* Update after ApplyWhereCondition, filtered being its result
UpdateFiltered(o, updates, whereCond, filtered) ==
    IF filtered.err # ""
    THEN Return(filtered.err,
                <<"ParseUpdateValues", "ValidateColumns", "ApplyWhereCondition">>, -1)
    ELSE IF Nrow(filtered.df) = 0
    THEN Return("", <<"ParseUpdateValues", "ValidateColumns", "ApplyWhereCondition">>, 0)
    ELSE UpdatePerformed(PerformUpdate(o, o.DataFrame, filtered.df, updates, whereCond))

\* Update after ParseUpdateValues, parsed being its result
UpdateParsed(o, parsed, whereCond) ==
    IF ~parsed.ok
    THEN Return("InvalidAssignment", <<"ParseUpdateValues">>, -1)
    ELSE IF \E column \in DOMAIN parsed.values : ValidateColumns(o, <<column>>) # ""
    THEN Return("UnknownColumn", <<"ParseUpdateValues", "ValidateColumns">>, -1)
    ELSE UpdateFiltered(o, parsed.values, whereCond,
                        ApplyWhereCondition(o, o.DataFrame, whereCond))

\* Update
Update(o, updateVals, whereCond) ==
    IF updateVals = <<>> THEN Return("EmptyInput", <<>>, -1)
    ELSE IF whereCond = <<>> THEN Return("MissingWhereClause", <<>>, -1)
    ELSE UpdateParsed(o, ParseUpdateValues(updateVals), whereCond)

\* The texts from position j on, joined by "|"
RECURSIVE JoinCells(_, _)
JoinCells(row, j) ==
    IF j > Len(row) THEN <<>>
    ELSE (IF j > 1 THEN <<"|">> ELSE <<>>) \o row[j] \o JoinCells(row, j + 1)

\* CreateRowSignature: the renderings of the row joined by "|"
CreateRowSignature(df, rowIndex) == JoinCells(df.rows[rowIndex], 1)

\* Fault: of the rows that share a signature to delete only the first goes
KeepOutsideFirst(df, rowsToDelete) ==
    IF rowsToDelete.err # "" THEN [i \in 1..Nrow(df) |-> i]
    ELSE Ascending({i \in 1..Nrow(df) :
                      \/ CreateRowSignature(df, i) \notin
                            {CreateRowSignature(rowsToDelete.df, d) :
                               d \in 1..Nrow(rowsToDelete.df)}
                      \/ \E h \in 1..(i - 1) :
                            CreateRowSignature(df, h) = CreateRowSignature(df, i)})

\* The loops of GetIndicesToKeep, rowsToDelete being what ApplyWhereCondition
\* returned
KeepOutside(df, rowsToDelete) ==
    IF rowsToDelete.err # "" THEN [i \in 1..Nrow(df) |-> i]
    ELSE Ascending({i \in 1..Nrow(df) :
                      CreateRowSignature(df, i) \notin
                         {CreateRowSignature(rowsToDelete.df, d) :
                            d \in 1..Nrow(rowsToDelete.df)}})

\* GetIndicesToKeep
GetIndicesToKeep(o, df, whereCond) ==
    KeepOutside(df, ApplyWhereCondition(o, df, whereCond))

\* Fault: the empty frame has no columns
CreateNoColumns(o) == StringFrame(<<>>, <<>>)

\* CreateEmptyDataFrame
CreateEmptyDataFrame(o) == StringFrame(o.Headers, <<>>)

\* Fault: the columns are collected from the last to the first
SubsetByIndicesBackwards(o, df, indices) ==
    IF Len(indices) = 0 THEN CreateEmptyDataFrame(o)
    ELSE StringFrame(Reversed(o.Headers),
                     [k \in 1..Len(indices) |-> Reversed(df.rows[indices[k]])])

\* SubsetByIndices
SubsetByIndices(o, df, indices) ==
    IF Len(indices) = 0 THEN CreateEmptyDataFrame(o)
    ELSE StringFrame([j \in 1..Ncol(df) |-> o.Headers[j]], RowsAt(df.rows, indices))

\* PerformDelete once GetIndicesToKeep has returned
DeleteOutside(o, originalDF, indicesToKeep) ==
    IF Len(indicesToKeep) = 0
    THEN [df |-> CreateEmptyDataFrame(o), rowsDeleted |-> Nrow(originalDF)]
    ELSE [df |-> SubsetByIndices(o, originalDF, indicesToKeep),
          rowsDeleted |-> Nrow(originalDF)
                             - Nrow(SubsetByIndices(o, originalDF, indicesToKeep))]

\* PerformDelete: [df, rowsDeleted]
PerformDelete(o, originalDF, rowsToDelete, whereCond) ==
    IF Nrow(rowsToDelete) = 0 THEN [df |-> originalDF, rowsDeleted |-> 0]
    ELSE DeleteOutside(o, originalDF, GetIndicesToKeep(o, originalDF, whereCond))

\* Delete after PerformDelete, done being its result
DeletePerformed(done) ==
    SaveAndReturn(done.df, <<"ApplyWhereCondition", "PerformDelete">>, done.rowsDeleted)

\* Fault: the frame is rebuilt and saved even when no row is to be deleted
DeleteFilteredAlways(o, whereCond, rowsToDelete) ==
    IF rowsToDelete.err # "" THEN Return(rowsToDelete.err, <<"ApplyWhereCondition">>, -1)
    ELSE DeletePerformed(PerformDelete(o, o.DataFrame, rowsToDelete.df, whereCond))

\* Delete after ApplyWhereCondition, rowsToDelete being its result
DeleteFiltered(o, whereCond, rowsToDelete) ==
    IF rowsToDelete.err # "" THEN Return(rowsToDelete.err, <<"ApplyWhereCondition">>, -1)
    ELSE IF Nrow(rowsToDelete.df) = 0 THEN Return("", <<"ApplyWhereCondition">>, 0)
    ELSE DeletePerformed(PerformDelete(o, o.DataFrame, rowsToDelete.df, whereCond))

\* Fault: the WHERE text is not required
DeleteUnguarded(o, whereCond) ==
    DeleteFiltered(o, whereCond, ApplyWhereCondition(o, o.DataFrame, whereCond))

\* Delete
Delete(o, whereCond) ==
    IF whereCond = <<>> THEN Return("MissingWhereClause", <<>>, -1)
    ELSE DeleteFiltered(o, whereCond, ApplyWhereCondition(o, o.DataFrame, whereCond))

---------------------------------------------------------------------------
(* SELECT and the aggregations.  Select returns [err, steps, kind, print,   *)
(* results, footer]: kind says what was produced (frame, results, columns,  *)
(* none), print what PrintDataFrame did, results the aggregation map,       *)
(* footer the row count of the "(n rows)" line (-1: no such line).          *)

NoPrint == [dest |-> "", content |-> <<>>, shown |-> NoFrame]

\* A return of the read path before anything is printed
ReturnError(kind, steps) ==
    [err |-> kind, steps |-> steps, kind |-> "none", print |-> NoPrint,
     results |-> EmptyMap, footer |-> -1]

funcNames == << <<"C", "O", "U", "N", "T">>, <<"S", "U", "M">>, <<"A", "V", "G">>,
                <<"M", "I", "N">>, <<"M", "A", "X">> >>

\* The function name whose call form the text has, trying the names in order
RECURSIVE MatchFunc(_, _)
MatchFunc(upperCol, k) ==
    IF k > Len(funcNames) THEN <<>>
    ELSE IF HasPrefix(upperCol, funcNames[k] \o <<"(">>) /\ HasSuffix(upperCol, <<")">>)
    THEN funcNames[k]
    ELSE MatchFunc(upperCol, k + 1)

\* The AggregateFunction of a call of funcName whose parentheses hold inner
AggFunc(o, funcName, inner) ==
    [Function |-> funcName,
     Column |-> IF funcName = <<"C", "O", "U", "N", "T">> /\ inner = <<"*">>
                THEN o.Headers[1] ELSE inner,
     Alias |-> funcName \o <<"(">>
                 \o (IF funcName = <<"C", "O", "U", "N", "T">> /\ inner = <<"*">>
                     THEN o.Headers[1] ELSE inner)
                 \o <<")">>]

\* The body of the loop of ParseAggregations for one trimmed part col, whose
\* upper-cased text is upperCol and matches funcName (<<>>: none)
AggFuncOf(o, col, upperCol, funcName) ==
    IF funcName = <<>> THEN <<>>
    ELSE <<AggFunc(o, funcName,
                   TrimSpace(SubSeq(col, Index(upperCol, <<"(">>) + 1,
                                    LastIndex(upperCol, <<")">>) - 1)))>>

\* The loop of ParseAggregations over the parts from position k on
RECURSIVE AggFuncsFrom(_, _, _)
AggFuncsFrom(o, cols, k) ==
    IF k > Len(cols) THEN <<>>
    ELSE AggFuncOf(o, TrimSpace(cols[k]), ToUpper(TrimSpace(cols[k])),
                   MatchFunc(ToUpper(TrimSpace(cols[k])), 1))
           \o AggFuncsFrom(o, cols, k + 1)

\* ParseAggregations: the aggFuncs; hasAggregation is that there is one
ParseAggregations(o, selectCols) ==
    IF selectCols = <<>> THEN <<>>
    ELSE AggFuncsFrom(o, Split(selectCols, <<",">>), 1)

\* A float64 result: not-a-number, or the fraction num/den
Float(nan, num, den) == [kind |-> "float", nan |-> nan, num |-> num, den |-> den]

RECURSIVE SumCells(_, _)
SumCells(cells, k) ==
    IF k > Len(cells) THEN 0 ELSE Atoi(cells[k]).val + SumCells(cells, k + 1)

\* Whether MIN (smaller = TRUE) or MAX replaces its extreme cur by val.  In a
\* numeric column both renderings are parsed as floats, and a comparison
\* with not-a-number is false
Better(t, val, cur, smaller) ==
    IF t = "int"
    THEN ~IsNA(val) /\ ~IsNA(cur) /\
         IntCompare(Atoi(val).val, IF smaller THEN "<" ELSE ">", Atoi(cur).val)
    ELSE IF smaller THEN TextLess(val, cur) ELSE TextLess(cur, val)

\* The scan of MIN and MAX over the cells from position k on
RECURSIVE Extreme(_, _, _, _, _)
Extreme(t, cells, k, cur, smaller) ==
    IF k > Len(cells) THEN cur
    ELSE Extreme(t, cells, k + 1,
                 IF Better(t, cells[k], cur, smaller) THEN cells[k] ELSE cur, smaller)

\* The switch of CalculateAggregation on a column of type t with the given
\* cells, n being the rows of the frame
AggregateCells(f, t, cells, n) ==
    CASE f = <<"C", "O", "U", "N", "T">> ->
           [err |-> "", result |-> [kind |-> "int", val |-> n]]
      [] f = <<"S", "U", "M">> ->
           IF t # "int" THEN [err |-> "TypeError", result |-> [kind |-> "nil"]]
           ELSE [err |-> "",
                 result |-> Float(\E i \in DOMAIN cells : IsNA(cells[i]),
                                  SumCells(cells, 1), 1)]
      [] f = <<"A", "V", "G">> ->
           IF t # "int" THEN [err |-> "TypeError", result |-> [kind |-> "nil"]]
           ELSE IF Len(cells) = 0 THEN [err |-> "", result |-> Float(FALSE, 0, 1)]
           ELSE [err |-> "",
                 result |-> Float(\E i \in DOMAIN cells : IsNA(cells[i]),
                                  SumCells(cells, 1), Len(cells))]
      [] f = <<"M", "I", "N">> ->
           IF Len(cells) = 0 THEN [err |-> "", result |-> [kind |-> "nil"]]
           ELSE [err |-> "",
                 result |-> [kind |-> "elem", text |-> Extreme(t, cells, 2, cells[1], TRUE)]]
      [] f = <<"M", "A", "X">> ->
           IF Len(cells) = 0 THEN [err |-> "", result |-> [kind |-> "nil"]]
           ELSE [err |-> "",
                 result |-> [kind |-> "elem", text |-> Extreme(t, cells, 2, cells[1], FALSE)]]

\* CalculateAggregation: [err, result]
CalculateAggregation(df, aggFunc) ==
    AggregateCells(aggFunc.Function, df.types[ColIndex(df, aggFunc.Column)],
                   ColumnOf(df.rows, ColIndex(df, aggFunc.Column)), Nrow(df))

RECURSIVE Aggregate(_, _, _, _, _)

\* Fault: an aggregate that fails is passed over and the loop goes on
CalculatedOrSkipped(o, df, aggFuncs, k, results, r) ==
    IF r.err # "" THEN Aggregate(o, df, aggFuncs, k + 1, results)
    ELSE Aggregate(o, df, aggFuncs, k + 1, MapPut(results, aggFuncs[k].Alias, r.result))

\* The loop body after CalculateAggregation returned r for aggFuncs[k]
Calculated(o, df, aggFuncs, k, results, r) ==
    IF r.err # "" THEN [err |-> r.err, results |-> EmptyMap]
    ELSE Aggregate(o, df, aggFuncs, k + 1, MapPut(results, aggFuncs[k].Alias, r.result))

\* The loop of HandleAggregation from position k on: [err, results]
Aggregate(o, df, aggFuncs, k, results) ==
    IF k > Len(aggFuncs) THEN [err |-> "", results |-> results]
    ELSE IF ValidateColumns(o, <<aggFuncs[k].Column>>) # ""
    THEN [err |-> "UnknownColumn", results |-> EmptyMap]
    ELSE Calculated(o, df, aggFuncs, k, results, CalculateAggregation(df, aggFuncs[k]))

\* HandleAggregation after the loop, agg being its result
Aggregated(agg) ==
    IF agg.err # ""
    THEN ReturnError(agg.err,
                     <<"ParseAggregations", "ApplyWhereCondition", "CalculateAggregation">>)
    ELSE [err |-> "",
          steps |-> <<"ParseAggregations", "ApplyWhereCondition",
                      "CalculateAggregation", "PrintAggregationResults">>,
          kind |-> "results", print |-> NoPrint, results |-> agg.results, footer |-> -1]

\* Fault: the aggregates are calculated on the table, not on the filtered rows
AggregateUnfiltered(o, aggFuncs, filtered) ==
    IF filtered.err # ""
    THEN ReturnError(filtered.err, <<"ParseAggregations", "ApplyWhereCondition">>)
    ELSE Aggregated(Aggregate(o, o.DataFrame, aggFuncs, 1, EmptyMap))

\* HandleAggregation after ApplyWhereCondition, filtered being its result
AggregateFiltered(o, aggFuncs, filtered) ==
    IF filtered.err # ""
    THEN ReturnError(filtered.err, <<"ParseAggregations", "ApplyWhereCondition">>)
    ELSE Aggregated(Aggregate(o, filtered.df, aggFuncs, 1, EmptyMap))

\* HandleAggregation
HandleAggregation(o, aggFuncs, whereCond) ==
    AggregateFiltered(o, aggFuncs, ApplyWhereCondition(o, o.DataFrame, whereCond))

\* Fault: of the rows of one key the last is kept
ApplyDistinctLast(df) ==
    Subset(df, Ascending({i \in 1..Nrow(df) :
                            \A h \in (i + 1)..Nrow(df) :
                               JoinCells(df.rows[h], 1) # JoinCells(df.rows[i], 1)}))

\* ApplyDistinct: the first row of every key, the key being the renderings
\* of the row joined by "|"
ApplyDistinct(df) ==
    Subset(df, Ascending({i \in 1..Nrow(df) :
                            \A h \in 1..(i - 1) :
                               JoinCells(df.rows[h], 1) # JoinCells(df.rows[i], 1)}))

\* The end of Select: the limited frame is printed
SelectLimited(o, limitedDF) ==
    [err |-> "",
     steps |-> <<"ParseAggregations", "ParseColumns", "ValidateColumns",
                 "ApplyWhereCondition", "ApplyOrderBy", "ApplyLimit", "PrintDataFrame">>,
     kind |-> "frame", print |-> PrintDataFrame(o, limitedDF), results |-> EmptyMap,
     footer |-> IF o.RawOutput THEN -1 ELSE Nrow(limitedDF)]

\* Select after ApplyOrderBy, ordered being its result
SelectOrdered(o, limit, ordered) ==
    IF ordered.err # ""
    THEN ReturnError(ordered.err,
                     <<"ParseAggregations", "ParseColumns", "ValidateColumns",
                       "ApplyWhereCondition", "ApplyOrderBy">>)
    ELSE SelectLimited(o, ApplyLimit(ordered.df, limit))

\* The DISTINCT step of Select
SelectDistinct(selectCols, df) ==
    IF Contains(selectCols, <<"D", "I", "S", "T", "I", "N", "C", "T">>)
       \/ Contains(selectCols, <<"d", "i", "s", "t", "i", "n", "c", "t">>)
    THEN ApplyDistinct(df) ELSE df

\* The projection step of Select
SelectProjected(selectCols, columns, df) ==
    IF selectCols # <<>> THEN SelectCols(df, columns) ELSE df

\* Fault: the limit is applied before the sort
SelectFilteredLimitFirst(o, selectCols, columns, orderBy, limit, filtered) ==
    IF filtered.err # ""
    THEN ReturnError(filtered.err,
                     <<"ParseAggregations", "ParseColumns", "ValidateColumns",
                       "ApplyWhereCondition">>)
    ELSE SelectOrdered(o, 0,
            ApplyOrderBy(o,
               ApplyLimit(SelectDistinct(selectCols,
                                         SelectProjected(selectCols, columns, filtered.df)),
                          limit),
               orderBy))

\* Select after ApplyWhereCondition, filtered being its result
SelectFiltered(o, selectCols, columns, orderBy, limit, filtered) ==
    IF filtered.err # ""
    THEN ReturnError(filtered.err,
                     <<"ParseAggregations", "ParseColumns", "ValidateColumns",
                       "ApplyWhereCondition">>)
    ELSE SelectOrdered(o, limit,
            ApplyOrderBy(o,
               SelectDistinct(selectCols, SelectProjected(selectCols, columns, filtered.df)),
               orderBy))

\* Select after ParseColumns, columns being its result
SelectColumns(o, selectCols, whereCond, orderBy, limit, columns) ==
    IF ValidateColumns(o, columns) # ""
    THEN ReturnError("UnknownColumn",
                     <<"ParseAggregations", "ParseColumns", "ValidateColumns">>)
    ELSE SelectFiltered(o, selectCols, columns, orderBy, limit,
                        ApplyWhereCondition(o, o.DataFrame, whereCond))

\* Select after ParseAggregations, aggFuncs being its result
SelectParsed(o, selectCols, whereCond, orderBy, limit, aggFuncs) ==
    IF Len(aggFuncs) > 0 THEN HandleAggregation(o, aggFuncs, whereCond)
    ELSE SelectColumns(o, selectCols, whereCond, orderBy, limit,
                       ParseColumns(o, selectCols))

\* Select
Select(o, selectCols, whereCond, orderBy, limit) ==
    SelectParsed(o, selectCols, whereCond, orderBy, limit,
                 ParseAggregations(o, selectCols))

\* ShowColumns: prints the headers
ShowColumns(o) ==
    [err |-> "", steps |-> <<"ShowColumns">>, kind |-> "columns",
     print |-> NoPrint, results |-> EmptyMap, footer |-> -1]

---------------------------------------------------------------------------
(* The inputs: the CSV file before the first invocation, and the flags.     *)

id   == <<"i", "d">>
name == <<"n", "a", "m", "e">>
age  == <<"a", "g", "e">>
zz   == <<"z", "z">>

Headers0 == <<id, name, age>>

\* The rows a file is made of: a plain row, a row with a missing age, and a
\* row whose age is no number (its column is then of type String)
RowPool == { << <<"1">>, <<"A">>, <<"2", "0">> >>,
             << <<"9">>, <<"B">>, <<>> >>,
             << <<"1", "0">>, <<"B">>, <<"x">> >> }

RECURSIVE SeqsUpTo(_, _)
SeqsUpTo(S, n) ==
    IF n = 0 THEN {<<>>}
    ELSE LET shorter == SeqsUpTo(S, n - 1)
         IN shorter \union {Append(q, x) : q \in {r \in shorter : Len(r) = n - 1}, x \in S}

Files0 == {[names |-> Headers0, rows |-> rows, header |-> TRUE, export |-> FALSE] :
             rows \in SeqsUpTo(RowPool, MaxRows)}

SourcePath == "data.csv"
OtherPath == "out.csv"

\* -where texts
WhereTexts ==
    { <<>>,
      name \o <<" ", "=", " ", "'", "B", "'">>,
      id \o <<"=", "9">>,
      age \o <<" ", ">", " ", "1", "5">>,
      age \o <<" ", "<", "=", " ", "2", "0">>,
      id \o <<" ", "!", "=", " ", "1">>,
      zz \o <<" ", "=", " ", "1">>,
      name }

\* -update texts
UpdateTexts ==
    { age \o <<"=", "9", "9">>,
      name \o <<"=", "'", "Z", "'", ",", " ">> \o age \o <<"=", "7">>,
      zz \o <<"=", "1">>,
      age }

\* -insert texts
InsertTexts ==
    { name \o <<"=", "C">>,
      id \o <<"=", "3", ",">> \o name \o <<"=", "'", "C", "'", ",">> \o age \o <<"=", "4", "0">>,
      age \o <<"=", "x">>,
      zz \o <<"=", "1">>,
      name }

\* -select texts
SelectTexts ==
    { <<>>,
      name,
      age \o <<",">> \o id,
      zz,
      <<"C", "O", "U", "N", "T", "(", "*", ")">> }

\* -order texts
OrderTexts == { <<>>, age \o <<" ", "d", "e", "s", "c">> }

\* No flag given: the default invocation, a SELECT of everything
NoFlags ==
    [File |-> SourcePath, Select |-> <<>>, Where |-> <<>>, Update |-> <<>>,
     Delete |-> FALSE, Insert |-> <<>>, Limit |-> 0, Order |-> <<>>,
     Columns |-> FALSE, Raw |-> FALSE, Output |-> ""]

InsertOptions == {[NoFlags EXCEPT !.Insert = i] : i \in InsertTexts}

\* -where texts given with -update
UpdateWhereTexts ==
    { <<>>,
      name \o <<" ", "=", " ", "'", "B", "'">>,
      age \o <<" ", ">", " ", "1", "5">>,
      id \o <<" ", "!", "=", " ", "1">>,
      zz \o <<" ", "=", " ", "1">>,
      name }

UpdateOptions == {[NoFlags EXCEPT !.Update = u, !.Where = w] :
                    u \in UpdateTexts, w \in UpdateWhereTexts}

DeleteOptions == {[NoFlags EXCEPT !.Delete = TRUE, !.Where = w] : w \in WhereTexts}

SelectOptions ==
    {[NoFlags EXCEPT !.Select = c, !.Where = w] :
        c \in SelectTexts, w \in {<<>>, age \o <<" ", ">", " ", "1", "5">>}}
    \union
    {[NoFlags EXCEPT !.Order = ob, !.Limit = n] : ob \in OrderTexts, n \in {0, 1}}
    \union
    {[NoFlags EXCEPT !.Select = c, !.Raw = r, !.Output = f] :
        c \in {<<>>, name}, r \in BOOLEAN, f \in {SourcePath, OtherPath}}
    \union
    {[NoFlags EXCEPT !.Raw = TRUE]}

\* Several operation flags at once
MixedOptions ==
    { [NoFlags EXCEPT !.Columns = TRUE],
      [NoFlags EXCEPT !.Columns = TRUE, !.Insert = name \o <<"=", "C">>, !.Delete = TRUE,
                      !.Where = id \o <<"=", "9">>],
      [NoFlags EXCEPT !.Insert = name \o <<"=", "C">>, !.Delete = TRUE,
                      !.Where = id \o <<"=", "9">>],
      [NoFlags EXCEPT !.Update = age \o <<"=", "9", "9">>, !.Delete = TRUE,
                      !.Where = id \o <<"=", "9">>, !.Select = name] }

Options == InsertOptions \union UpdateOptions \union DeleteOptions
             \union SelectOptions \union MixedOptions

---------------------------------------------------------------------------
(* runCSVQL: one invocation of the program on the source file.              *)

NoOut == [kind |-> "none", print |-> NoPrint, results |-> EmptyMap, footer |-> -1]

\* Initialize: the source file is read into the data frame
Loaded(o, df) == [o EXCEPT !.DataFrame = df, !.Headers = df.names]

Initialize(o, f) == Loaded(o, ReadCSV(f))

\* The record runCSVQL builds before Initialize
NewOperations(options) ==
    [FilePath |-> options.File, RawOutput |-> options.Raw, OutputFile |-> options.Output,
     DataFrame |-> NoFrame, Headers |-> <<>>]

\* Fault: the delete flag is tried before the insert and update flags
DispatchDeleteFirst(options) ==
    IF options.Columns THEN "ShowColumns"
    ELSE IF options.Delete THEN "Delete"
    ELSE IF options.Insert # <<>> THEN "Insert"
    ELSE IF options.Update # <<>> THEN "Update"
    ELSE "Select"

\* The case the switch of runCSVQL takes
Dispatch(options) ==
    IF options.Columns THEN "ShowColumns"
    ELSE IF options.Insert # <<>> THEN "Insert"
    ELSE IF options.Update # <<>> THEN "Update"
    ELSE IF options.Delete THEN "Delete"
    ELSE "Select"

\* What a mutation leaves on disk: the result of SaveDataFrameToCSV if it
\* ran, else what was there
AfterMutation(f, r) ==
    IF r.save THEN SaveDataFrameToCSV(r.df).content @@ [export |-> FALSE] ELSE f

\* What the read path leaves on disk: the export if it went to the source path
AfterSelect(f, o, r) ==
    IF r.kind = "frame" /\ r.print.dest = o.FilePath
    THEN r.print.content @@ [export |-> TRUE] ELSE f

\* No condition text, and nothing parsed
NoText == [col |-> <<>>, op |-> <<>>, lit |-> <<>>, pad |-> <<>>]
NoCondition == [column |-> <<>>, operator |-> <<>>, value |-> <<>>]

\* No invocation is running on the source file f
Idle(f) ==
    /\ file = f
    /\ before = f
    /\ opts = NoFlags
    /\ ops = NewOperations(NoFlags)
    /\ ran = ""
    /\ err = ""
    /\ affected = -1
    /\ out = NoOut
    /\ loads = 0
    /\ writes = 0
    /\ log = <<>>
    /\ runs = 0

Init ==
    /\ \E f \in Files0 : Idle(f)
    /\ pc = "idle"
    /\ cond = NoText
    /\ split = NoCondition

\* The program starts: runCSVQL builds the operations and Initialize loads
\* the file.  The model follows the source file until a read overwrote it
\* with its output.
RunInitialize ==
    /\ pc = "idle"
    /\ runs < MaxRuns
    /\ file.header /\ ~file.export
    /\ \E options \in Options :
          /\ opts' = options
          /\ ops' = Initialize(NewOperations(options), file)
    /\ before' = file
    /\ pc' = "loaded"
    /\ loads' = 1
    /\ writes' = 0
    /\ log' = <<"Initialize">>
    /\ runs' = runs + 1
    /\ ran' = ""
    /\ err' = ""
    /\ affected' = -1
    /\ out' = NoOut
    /\ UNCHANGED <<file, cond, split>>

\* Initialize fails and runCSVQL returns its error: of a file that holds the
\* header and no row, dataframe.ReadCSV makes a frame of no rows in some
\* releases of gota and the error "empty DataFrame" in others, so such a
\* file takes either this step or the one above
RunInitializeFails ==
    /\ pc = "idle"
    /\ runs < MaxRuns
    /\ file.header /\ ~file.export
    /\ file.rows = <<>>
    /\ \E options \in Options :
          /\ opts' = options
          /\ ops' = NewOperations(options)
    /\ before' = file
    /\ pc' = "done"
    /\ loads' = 1
    /\ writes' = 0
    /\ log' = <<"Initialize">>
    /\ runs' = runs + 1
    /\ ran' = ""
    /\ err' = "CodecError"
    /\ affected' = -1
    /\ out' = NoOut
    /\ UNCHANGED <<file, cond, split>>

RunShowColumns ==
    /\ pc = "loaded"
    /\ Dispatch(opts) = "ShowColumns"
    /\ \E r \in {ShowColumns(ops)} :
          /\ err' = r.err
          /\ out' = [kind |-> r.kind, print |-> r.print, results |-> r.results,
                     footer |-> r.footer]
          /\ log' = log \o r.steps
    /\ ran' = "ShowColumns"
    /\ pc' = "done"
    /\ UNCHANGED <<file, before, opts, ops, affected, loads, writes, runs, cond, split>>

RunInsert ==
    /\ pc = "loaded"
    /\ Dispatch(opts) = "Insert"
    /\ \E r \in {Insert(ops, opts.Insert)} :
          /\ err' = r.err
          /\ affected' = r.n
          /\ file' = AfterMutation(file, r)
          /\ writes' = IF r.save THEN writes + 1 ELSE writes
          /\ log' = log \o r.steps
    /\ ran' = "Insert"
    /\ pc' = "done"
    /\ UNCHANGED <<before, opts, ops, out, loads, runs, cond, split>>

RunUpdate ==
    /\ pc = "loaded"
    /\ Dispatch(opts) = "Update"
    /\ \E r \in {Update(ops, opts.Update, opts.Where)} :
          /\ err' = r.err
          /\ affected' = r.n
          /\ file' = AfterMutation(file, r)
          /\ writes' = IF r.save THEN writes + 1 ELSE writes
          /\ log' = log \o r.steps
    /\ ran' = "Update"
    /\ pc' = "done"
    /\ UNCHANGED <<before, opts, ops, out, loads, runs, cond, split>>

RunDelete ==
    /\ pc = "loaded"
    /\ Dispatch(opts) = "Delete"
    /\ \E r \in {Delete(ops, opts.Where)} :
          /\ err' = r.err
          /\ affected' = r.n
          /\ file' = AfterMutation(file, r)
          /\ writes' = IF r.save THEN writes + 1 ELSE writes
          /\ log' = log \o r.steps
    /\ ran' = "Delete"
    /\ pc' = "done"
    /\ UNCHANGED <<before, opts, ops, out, loads, runs, cond, split>>

RunSelect ==
    /\ pc = "loaded"
    /\ Dispatch(opts) = "Select"
    /\ \E r \in {Select(ops, opts.Select, opts.Where, opts.Order, opts.Limit)} :
          /\ err' = r.err
          /\ out' = [kind |-> r.kind, print |-> r.print, results |-> r.results,
                     footer |-> r.footer]
          /\ file' = AfterSelect(file, ops, r)
          /\ writes' = IF r.kind = "frame" /\ r.print.dest = ops.FilePath
                       THEN writes + 1 ELSE writes
          /\ log' = log \o r.steps
    /\ ran' = "Select"
    /\ pc' = "done"
    /\ UNCHANGED <<before, opts, ops, affected, loads, runs, cond, split>>

\* The process exits; the file stays
Exit ==
    /\ pc = "done"
    /\ pc' = "idle"
    /\ opts' = NoFlags
    /\ ops' = NewOperations(NoFlags)
    /\ before' = file
    /\ ran' = ""
    /\ err' = ""
    /\ affected' = -1
    /\ out' = NoOut
    /\ loads' = 0
    /\ writes' = 0
    /\ log' = <<>>
    /\ UNCHANGED <<file, runs, cond, split>>

Next ==
    \/ RunInitialize
    \/ RunInitializeFails
    \/ RunShowColumns
    \/ RunInsert
    \/ RunUpdate
    \/ RunDelete
    \/ RunSelect
    \/ Exit

Spec == Init /\ [][Next]_vars

---------------------------------------------------------------------------
(* The condition parser of parseAndApplyFilter on its own: the condition    *)
(* texts are a column, an operator and a literal, written with or without   *)
(* blanks around them.                                                      *)

Conditions ==
    [col : { age, id, <<"a", " ", "b">>, <<>> },
     op  : { operators[k] : k \in 1..Len(operators) },
     lit : { <<"5">>, <<"-", "3">>, <<"'", "x", " ", "y", "'">>, <<"\"", "B", "\"">>,
             <<"=", "5">>, <<>>,
             <<"\"", "'", "B", "'", "\"">>, <<"'", "'", "x", "'", "'">>, <<"a", "'", "b">> },
     pad : { <<>>, <<" ">> }]

\* The text of a condition
ConditionText(c) == c.pad \o c.col \o c.pad \o c.op \o c.pad \o c.lit \o c.pad

ParseInit ==
    /\ Idle(CHOOSE f \in Files0 : f.rows = <<>>)
    /\ pc = "text"
    /\ cond \in Conditions
    /\ split = NoCondition

\* The parsing loop of parseAndApplyFilter runs on the text
ParseStep ==
    /\ pc = "text"
    /\ pc' = "parsed"
    /\ split' = ParseCondition(ConditionText(cond))
    /\ UNCHANGED <<file, before, opts, ops, ran, err, affected, out, loads, writes,
                   log, runs, cond>>

ParseNext == ParseStep

ParseSpec == ParseInit /\ [][ParseNext]_vars

---------------------------------------------------------------------------
(* The read path on its own: a table is loaded, and on it either Select     *)
(* runs with the flags given, or one of the steps Select is made of is      *)
(* called with its flag: ApplyWhereCondition, ApplyOrderBy, ApplyLimit,     *)
(* ApplyDistinct.                                                           *)

MaxQueryRows == 3

\* The rows a queried file is made of: three plain rows, a row whose age is
\* no number (its column is then of type String), a row with a missing age
QueryRowPool == { << <<"1">>, <<"A">>, <<"2", "0">> >>,
                  << <<"2">>, <<"B">>, <<"3", "0">> >>,
                  << <<"3">>, <<"C">>, <<"4", "0">> >>,
                  << <<"1", "0">>, <<"B">>, <<"x">> >>,
                  << <<"9">>, <<"B">>, <<>> >> }

QueryFiles == {[names |-> Headers0, rows |-> rows, header |-> TRUE, export |-> FALSE] :
                 rows \in SeqsUpTo(QueryRowPool, MaxQueryRows)}

\* -where texts of the queries
QueryWhereTexts ==
    { name \o <<" ", "=", " ", "'", "B", "'">>,
      name \o <<" ", "!", "=", " ", "B">>,
      age \o <<" ", ">", " ", "2", "5">>,
      age \o <<" ", ">", " ", "3">>,
      age \o <<">", "=", "3", "0">>,
      id \o <<" ", "<", " ", "1", "0">>,
      id \o <<" ", "<", "=", " ", "9">>,
      id \o <<" ", "<", " ", "a">>,
      zz \o <<" ", "=", " ", "1">>,
      <<"=", " ", "5">>,
      name,
      <<" ">> }

\* -order texts of the queries
QueryOrderTexts ==
    { age,
      age \o <<" ", "a", "s", "c">>,
      age \o <<" ", "d", "e", "s", "c">>,
      age \o <<" ", "D", "E", "S", "C">>,
      age \o <<" ", "u", "p">>,
      name \o <<" ", " ", "d", "e", "s", "c", " ", "x">>,
      id \o <<" ", "d", "e", "s", "c">>,
      zz,
      zz \o <<" ", "u", "p">>,
      <<" ">> }

\* -limit values of the queries
QueryLimits == { -1, 1, 2, 3, 4 }

DistinctName == <<"D", "I", "S", "T", "I", "N", "C", "T", " ">> \o name

\* -select texts of the queries
QuerySelectTexts ==
    { name,
      age \o <<",", " ">> \o id,
      id \o <<",">> \o name \o <<",">> \o age,
      zz,
      name \o <<",">> \o zz,
      name \o <<",">>,
      DistinctName,
      <<"d", "i", "s", "t", "i", "n", "c", "t", " ">> \o name }

QueryOptions ==
    {[NoFlags EXCEPT !.Where = w] : w \in QueryWhereTexts}
    \union
    {[NoFlags EXCEPT !.Order = ob] : ob \in QueryOrderTexts}
    \union
    {[NoFlags EXCEPT !.Limit = n] : n \in QueryLimits}
    \union
    {[NoFlags EXCEPT !.Where = w, !.Order = ob, !.Limit = n] :
        w \in {<<>>, age \o <<" ", ">", " ", "2", "5">>},
        ob \in {<<>>, age \o <<" ", "d", "e", "s", "c">>, id \o <<" ", "d", "e", "s", "c">>},
        n \in {0, 1, 2}}
    \union
    {[NoFlags EXCEPT !.Select = c, !.Where = w] :
        c \in QuerySelectTexts, w \in {<<>>, age \o <<" ", ">", " ", "2", "5">>}}
    \union
    {[NoFlags EXCEPT !.Select = name, !.Order = ob] :
        ob \in {age \o <<" ", "d", "e", "s", "c">>, name \o <<" ", "d", "e", "s", "c">>}}

\* A table is loaded and the flags are given
QueryInit ==
    /\ \E f \in QueryFiles : \E options \in QueryOptions :
          /\ file = f
          /\ before = f
          /\ opts = options
          /\ ops = Initialize(NewOperations(options), f)
    /\ pc = "loaded"
    /\ ran = ""
    /\ err = ""
    /\ affected = -1
    /\ out = NoOut
    /\ loads = 1
    /\ writes = 0
    /\ log = <<"Initialize">>
    /\ runs = 1
    /\ cond = NoText
    /\ split = NoCondition

\* What is kept of a step called on its own: the frame and the error it returns
Called(step, r) ==
    /\ pc = "loaded"
    /\ pc' = "done"
    /\ ran' = step
    /\ err' = r.err
    /\ out' = [NoOut EXCEPT !.kind = "call", !.print.shown = r.df]
    /\ log' = Append(log, step)
    /\ UNCHANGED <<file, before, opts, ops, affected, loads, writes, runs, cond, split>>

CallApplyWhereCondition ==
    \E r \in {ApplyWhereCondition(ops, ops.DataFrame, opts.Where)} :
       Called("ApplyWhereCondition", r)

CallApplyOrderBy ==
    \E r \in {ApplyOrderBy(ops, ops.DataFrame, opts.Order)} :
       Called("ApplyOrderBy", r)

CallApplyLimit ==
    \E r \in {[df |-> ApplyLimit(ops.DataFrame, opts.Limit), err |-> ""]} :
       Called("ApplyLimit", r)

CallApplyDistinct ==
    \E r \in {[df |-> ApplyDistinct(ops.DataFrame), err |-> ""]} :
       Called("ApplyDistinct", r)

QueryNext ==
    \/ RunSelect
    \/ CallApplyWhereCondition
    \/ CallApplyOrderBy
    \/ CallApplyLimit
    \/ CallApplyDistinct

QuerySpec == QueryInit /\ [][QueryNext]_vars

---------------------------------------------------------------------------
(* One operation on a loaded table: an aggregation query on the tables of   *)
(* the read path, or a Delete on a table whose cells hold the character |.  *)

\* -select texts that call aggregate functions
AggregateTexts ==
    { <<"C", "O", "U", "N", "T", "(", "*", ")">>,
      <<"C", "O", "U", "N", "T", "(", "a", "g", "e", ")">>,
      <<"c", "o", "u", "n", "t", "(", " ", "n", "a", "m", "e", " ", ")">>,
      <<"C", "O", "U", "N", "T", "(", "z", "z", ")">>,
      <<"A", "V", "G", "(", "a", "g", "e", ")">>,
      <<"A", "V", "G", "(", "n", "a", "m", "e", ")">>,
      <<"S", "U", "M", "(", "a", "g", "e", ")">>,
      <<"M", "I", "N", "(", "a", "g", "e", ")">>,
      <<"M", "A", "X", "(", "a", "g", "e", ")">>,
      <<"M", "I", "N", "(", "n", "a", "m", "e", ")">>,
      <<"M", "A", "X", "(", "n", "a", "m", "e", ")">>,
      <<"C", "O", "U", "N", "T", "(", "*", ")", ",", "C", "O", "U", "N", "T", "(", "i", "d", ")">>,
      <<"n", "a", "m", "e", ",", "C", "O", "U", "N", "T", "(", "*", ")">>,
      <<"C", "O", "U", "N", "T", "(", "*", ")", ",", "S", "U", "M", "(", "z", "z", ")">>,
      <<"S", "U", "M", "(", "z", "z", ")", ",", "A", "V", "G", "(", "n", "a", "m", "e", ")">>,
      <<"A", "V", "G", "(", "n", "a", "m", "e", ")", ",", "S", "U", "M", "(", "z", "z", ")">>,
      <<"M", "I", "N", "(", "a", "g", "e", ")", ",", " ", "M", "A", "X", "(", "a", "g", "e", ")">> }

\* -where texts given with them
AggregateWhereTexts ==
    { <<>>,
      <<"a", "g", "e", " ", ">", " ", "1", "0", "0">>,
      <<"n", "a", "m", "e", " ", "=", " ", "'", "B", "'">>,
      <<"a", "g", "e", " ", ">", " ", "2", "5">>,
      <<"z", "z", " ", "=", " ", "1">> }

AggregateOptions ==
    {[NoFlags EXCEPT !.Select = c, !.Where = w] :
        c \in AggregateTexts, w \in AggregateWhereTexts}

\* Rows with | in a cell: the first two are different rows whose cells joined
\* by | give the same text
BarRowPool == { << <<"1">>, <<"A", "|", "B">>, <<"C">> >>,
                << <<"1">>, <<"A">>, <<"B", "|", "C">> >>,
                << <<"2">>, <<"A">>, <<"C">> >> }

BarFiles == {[names |-> Headers0, rows |-> rows, header |-> TRUE, export |-> FALSE] :
               rows \in SeqsUpTo(BarRowPool, MaxRows)}

BarDeleteOptions ==
    {[NoFlags EXCEPT !.Delete = TRUE, !.Where = w] :
        w \in { <<"n", "a", "m", "e", " ", "=", " ", "'", "A", "'">>,
              <<"n", "a", "m", "e", " ", "=", " ", "'", "A", "|", "B", "'">>,
              <<"i", "d", " ", "=", " ", "1">>,
              <<"a", "g", "e", " ", "=", " ", "C">>,
              <<"i", "d", " ", "=", " ", "7">> }}

\* A table is loaded and the flags of one operation are given
OneInit ==
    /\ \E case \in (QueryFiles \X AggregateOptions) \union (BarFiles \X BarDeleteOptions) :
          /\ file = case[1]
          /\ before = case[1]
          /\ opts = case[2]
          /\ ops = Initialize(NewOperations(case[2]), case[1])
    /\ pc = "loaded"
    /\ ran = ""
    /\ err = ""
    /\ affected = -1
    /\ out = NoOut
    /\ loads = 1
    /\ writes = 0
    /\ log = <<"Initialize">>
    /\ runs = 1
    /\ cond = NoText
    /\ split = NoCondition

OneNext ==
    \/ RunSelect
    \/ RunDelete

OneSpec == OneInit /\ [][OneNext]_vars

---------------------------------------------------------------------------
(* Properties.  The words they are stated in:                               *)

Mutations == {"Insert", "Update", "Delete"}

\* The table the invocation loaded, and the cells of its rows as the program
\* reads them
Loaded0 == ops.DataFrame

\* The invocation has ended and its switch took the given case
Ended(case) == pc = "done" /\ ran = case

\* The save step ran
Saved == \E k \in DOMAIN log : log[k] = "SaveDataFrameToCSV"

\* The source file holds what it held when the invocation started
SourceUntouched == file = before /\ writes = 0

\* The WHERE text is a condition on a column of the table
ValidWhere(o, whereCond) ==
    \A c \in {ParseCondition(whereCond)} :
       c.column # <<>> /\ c.operator # <<>> /\ ColIndex(o.DataFrame, c.column) > 0

\* Row i of the frame satisfies the parsed condition c on its column j
Satisfies(df, i, c, j) ==
    /\ c.operator # <<>>
    /\ j > 0
    /\ ElemCompare(df.types[j], df.rows[i][j], Comparator(c.operator),
                   SetElem(df.types[j], c.value))

\* The rows of the frame that satisfy the parsed condition
MatchingParsed(df, c) ==
    {i \in 1..Nrow(df) : Satisfies(df, i, c, ColIndex(df, c.column))}

\* The rows of the frame that satisfy the condition
Matching(df, whereCond) == MatchingParsed(df, ParseCondition(whereCond))

\* The assignments are well formed and name columns of the table
ValidAssignments(o, text) ==
    \A a \in {ParseAssignments(Split(text, <<",">>), 1, EmptyMap)} :
       a.ok /\ \A c \in DOMAIN a.values : IndexIn(c, o.Headers) > 0

\* The assigned literals, by column
Assigned(text) == ParseAssignments(Split(text, <<",">>), 1, EmptyMap).values

\* The error kinds of empty input, assignment parsing, column validation and
\* WHERE evaluation
InputErrors ==
    {"EmptyInput", "MissingWhereClause", "InvalidAssignment", "UnknownColumn",
     "MalformedCondition"}

\* C1: an Update or a Delete given an empty WHERE text ends with the
\* missing-WHERE error and the source file is not written: it holds what was
\* loaded.  The same holds of the two operations called on any loaded table.
C1_MissingWhereLeavesSource ==
    /\ (pc = "done" /\ ran \in {"Update", "Delete"} /\ opts.Where = <<>>)
          => (err = "MissingWhereClause" /\ ~Saved /\ SourceUntouched)
    /\ pc = "loaded"
          => /\ Delete(ops, <<>>).err = "MissingWhereClause"
             /\ ~Delete(ops, <<>>).save
             /\ \A u \in UpdateTexts :
                   /\ Update(ops, u, <<>>).err = "MissingWhereClause"
                   /\ ~Update(ops, u, <<>>).save

C1_Witness ==
    /\ Ended("Update")
    /\ opts.Where = <<>>
    /\ Nrow(Loaded0) > 0
    /\ err = "MissingWhereClause"
    /\ file = before

\* C2: when Insert, Update or Delete ends with an error of empty input, of
\* assignment parsing, of column validation or of WHERE evaluation, the save
\* step has not run and the source file holds what it held before.  Called
\* with empty input on any loaded table, Insert and Update return the error
\* without saving.
C2_ErrorsNeverSave ==
    /\ (pc = "done" /\ ran \in Mutations /\ err \in InputErrors)
          => (~Saved /\ SourceUntouched)
    /\ pc = "loaded"
          => /\ Insert(ops, <<>>).err = "EmptyInput" /\ ~Insert(ops, <<>>).save
             /\ \A w \in UpdateWhereTexts :
                   /\ Update(ops, <<>>, w).err = "EmptyInput"
                   /\ ~Update(ops, <<>>, w).save

C2_Witness ==
    /\ Ended("Update")
    /\ err = "MalformedCondition"
    /\ Nrow(Loaded0) > 0
    /\ ValidAssignments(ops, opts.Update)
    /\ file = before

\* C3: when the WHERE text is a valid condition that no row of the loaded
\* table satisfies, Update (given valid assignments) and Delete end without
\* error, report no row, do not run the save step, and the source file holds
\* what was loaded.
C3_NoMatchSkipsSave ==
    (/\ pc = "done"
     /\ \/ ran = "Delete"
        \/ ran = "Update" /\ ValidAssignments(ops, opts.Update)
     /\ opts.Where # <<>>
     /\ ValidWhere(ops, opts.Where)
     /\ Matching(Loaded0, opts.Where) = {})
       => (err = "" /\ affected = 0 /\ ~Saved /\ SourceUntouched)

C3_Witness ==
    /\ Ended("Delete")
    /\ Nrow(Loaded0) = 2
    /\ ValidWhere(ops, opts.Where)
    /\ Matching(Loaded0, opts.Where) = {}
    /\ err = ""
    /\ ~Saved

\* C4: in every invocation the table is loaded once, before any operation,
\* and the source file is written at most once; when it is written, the
\* write is the last step of an Insert, Update or Delete that passed its
\* validation.
C4_OneLoadOneWriteByMutation ==
    /\ pc \in {"loaded", "done"}
          => /\ loads = 1
             /\ log[1] = "Initialize"
             /\ \A k \in 2..Len(log) : log[k] # "Initialize"
    /\ writes <= 1
    /\ (writes > 0 \/ file # before)
          => /\ pc = "done"
             /\ ran \in Mutations
             /\ log[Len(log)] = "SaveDataFrameToCSV"
             /\ err \notin InputErrors

C6_RowsAffectedCountsRows ==
    (Ended("Update") /\ err = "" /\ Saved)
       => /\ \A filtered \in {ApplyWhereCondition(ops, Loaded0, opts.Where).df} :
                affected =
                   Cardinality({i \in 1..Nrow(Loaded0) :
                      \E h \in 1..Nrow(filtered) : filtered.rows[h] = Loaded0.rows[i]})
          /\ \A u \in UpdateTexts :
                ValidAssignments(ops, u) => Update(ops, u, opts.Where).n = affected

C6_Witness ==
    /\ Ended("Update")
    /\ err = ""
    /\ Saved
    /\ Cardinality(DOMAIN Assigned(opts.Update)) = 2
    /\ Nrow(Loaded0) = 2
    /\ affected = 2

\* The rows of a sequence whose signature is not in the set, in order
RECURSIVE Without(_, _)
Without(rows, signatures) ==
    IF rows = <<>> THEN <<>>
    ELSE (IF JoinCells(Head(rows), 1) \in signatures THEN <<>> ELSE <<Head(rows)>>)
            \o Without(Tail(rows), signatures)

C8_DeleteAllKeepsColumns ==
    (/\ Ended("Delete")
     /\ opts.Where # <<>>
     /\ ValidWhere(ops, opts.Where)
     /\ Nrow(Loaded0) > 0
     /\ Matching(Loaded0, opts.Where) = 1..Nrow(Loaded0))
       => /\ err = ""
          /\ Saved
          /\ file.header
          /\ file.names = Loaded0.names
          /\ file.names = before.names
          /\ file.rows = <<>>
          /\ affected = Nrow(Loaded0)

C8_Witness ==
    /\ Ended("Delete")
    /\ Nrow(Loaded0) = 2
    /\ Loaded0.rows[1] # Loaded0.rows[2]
    /\ Matching(Loaded0, opts.Where) = {1, 2}
    /\ file.rows = <<>>
    /\ file.names = Headers0
    /\ affected = 2

\* C9: after an Insert whose assignments are well formed and name columns of
\* the table, the source file holds the rows loaded, in order, and after
\* them one new row whose cell is the assigned value in a named column and
\* the empty text in every other.
C9_InsertAppendsAssignedRow ==
    (Ended("Insert") /\ ValidAssignments(ops, opts.Insert))
       => /\ err = ""
          /\ Saved
          /\ file.names = Loaded0.names
          /\ file.rows =
               Append(Loaded0.rows,
                      [j \in 1..Ncol(Loaded0) |->
                         IF Loaded0.names[j] \in DOMAIN Assigned(opts.Insert)
                         THEN Assigned(opts.Insert)[Loaded0.names[j]]
                         ELSE <<>>])

\* The characters the operators are made of
OperatorChars == {">", "<", "=", "!"}

NoOperatorChar(text) == \A k \in DOMAIN text : text[k] \notin OperatorChars

\* C10: of a condition text made of a column, one of >=, <=, != and a
\* literal, neither holding an operator character, the parser yields that
\* operator, the column, and the literal (blanks around them and quotes
\* around the literal cut); it does not yield >, < or = with a literal that
\* starts with =.
C10_TwoCharOperatorsParsedWhole ==
    (/\ pc = "parsed"
     /\ cond.op \in {<<">", "=">>, <<"<", "=">>, <<"!", "=">>}
     /\ NoOperatorChar(cond.col)
     /\ NoOperatorChar(cond.lit))
       => /\ split.operator = cond.op
          /\ split.column = cond.col
          /\ split.value = Trim(cond.lit, {"'", "\""})
          /\ ~(/\ split.operator \in {<<">">>, <<"<">>, <<"=">>}
               /\ split.value # <<>>
               /\ Head(split.value) = "=")

C10_Witness ==
    /\ pc = "parsed"
    /\ cond.op = <<">", "=">>
    /\ cond.col = age
    /\ cond.lit = <<"5">>
    /\ cond.pad = <<" ">>
    /\ split = [column |-> age, operator |-> <<">", "=">>, value |-> <<"5">>]

---------------------------------------------------------------------------
(* Properties of the read path.  The words they are stated in:              *)

\* The frame a step called on its own returned, or Select printed
Shown == out.print.shown

\* The enumerations of a set of row positions
Perms(S) ==
    {p \in [1..Cardinality(S) -> S] : \A a, b \in 1..Cardinality(S) : a # b => p[a] # p[b]}

\* The positions of a set from the first to the last
Increasing(S) ==
    CHOOSE p \in Perms(S) : \A a, b \in 1..Cardinality(S) : a < b => p[a] < p[b]

\* The text holds one of the six operators
HasOperator(text) == \E k \in 1..Len(operators) : Contains(text, operators[k])

WhereErrors == {"MalformedCondition", "UnknownColumn"}

\* C11: ApplyWhereCondition on a non-empty text returns the malformed-condition
\* error when the text holds no operator, and the unknown-column error when the
\* column parsed from it is not a column of the table; with either error the
\* frame it returns is the table it was given, not a filtered one, and Select
\* prints nothing.
C11_BadConditionIsError ==
    /\ (Ended("ApplyWhereCondition") /\ opts.Where # <<>>)
       => \A c \in {ParseCondition(opts.Where)} :
             /\ ~HasOperator(opts.Where) => err = "MalformedCondition"
             /\ (c.column # <<>> /\ c.operator # <<>> /\ ColIndex(Loaded0, c.column) = 0)
                   => err = "UnknownColumn"
             /\ err \in WhereErrors => Shown = Loaded0
    /\ (Ended("Select") /\ opts.Where # <<>> /\ ValidateColumns(ops, ParseColumns(ops, opts.Select)) = "")
       => \A c \in {ParseCondition(opts.Where)} :
             /\ ~HasOperator(opts.Where) => err = "MalformedCondition"
             /\ (c.column # <<>> /\ c.operator # <<>> /\ ColIndex(Loaded0, c.column) = 0)
                   => err = "UnknownColumn"
             /\ err \in WhereErrors
                   => out.kind = "none" /\ out.footer = -1 /\ SourceUntouched

\* ApplyWhereCondition was called with a condition on a column the table of
\* two rows or more does not have
C11_Witness ==
    /\ Ended("ApplyWhereCondition")
    /\ HasOperator(opts.Where)
    /\ err = "UnknownColumn"
    /\ Nrow(Loaded0) >= 2
    /\ Shown = Loaded0

Quotes == {"'", "\""}

\* The text without one layer of surrounding quotes: a text that starts and
\* ends with the same quote character loses that pair, any other text stays
StripLayer(v) ==
    IF Len(v) >= 2 /\ v[1] \in Quotes /\ v[Len(v)] = v[1]
    THEN SubSeq(v, 2, Len(v) - 1) ELSE v

\* C12: the parser yields the column without the blanks around it, and the
\* literal without the blanks around it and without exactly one layer of
\* surrounding quotes, so that the inner layer of a literal in two layers of
\* quotes, and a quote inside the literal, are kept.
C12_OneQuoteLayerStripped ==
    (pc = "parsed" /\ NoOperatorChar(cond.col) /\ NoOperatorChar(cond.lit)
       /\ TrimSpace(cond.col) # <<>>)
       => /\ split.column = TrimSpace(cond.col)
          /\ split.operator = cond.op
          /\ split.value = StripLayer(TrimSpace(cond.lit))

OrderingOperators == {<<">">>, <<"<">>, <<">", "=">>, <<"<", "=">>}

\* The dual comparison: numeric when both texts are numbers, else as text
DualCompare(a, comparator, b) ==
    IF Atoi(a).ok /\ Atoi(b).ok THEN IntCompare(Atoi(a).val, comparator, Atoi(b).val)
    ELSE TextCompare(a, comparator, b, TextLess(a, b), TextLess(b, a))

\* The rows of the file whose cell in the column of the parsed condition
\* compares true with the literal under the dual comparison
DualMatching(f, c) ==
    {i \in 1..Len(f.rows) :
        DualCompare(f.rows[i][IndexIn(c.column, f.names)], Comparator(c.operator), c.value)}

\* C13: under >, <, >=, <= the filter returns the rows whose cell compares
\* true with the literal, numerically when the cell and the literal are both
\* numbers (a cell 9 is below 10, a cell 10 is not below 9) and as text when
\* either is not.
C13_DualComparison ==
    \A c \in {ParseCondition(opts.Where)} :
       (/\ Ended("ApplyWhereCondition")
        /\ c.operator \in OrderingOperators
        /\ IndexIn(c.column, before.names) > 0)
          => /\ err = ""
             /\ Shown.rows = RowsAt(Loaded0.rows, Increasing(DualMatching(before, c)))

Listed(text) == [k \in 1..Len(Split(text, <<",">>)) |-> TrimSpace(Split(text, <<",">>)[k])]

\* The WHERE text is empty or a condition on a column of the table
NoWhereError(o, whereCond) == whereCond = <<>> \/ ValidWhere(o, whereCond)

\* The rows of the table that pass the WHERE text, first to last
Passing(df, whereCond) ==
    IF whereCond = <<>> THEN [i \in 1..Nrow(df) |-> i]
    ELSE Increasing(Matching(df, whereCond))

Asc == <<"a", "s", "c">>
Desc == <<"d", "e", "s", "c">>

\* Row x of the frame comes before row y when the rows are sorted on column j:
\* rows with a value before rows without one, then by the value (downwards if
\* reverse), rows that compare equal in the order they have in the frame
Precedes(df, j, reverse, x, y) ==
    IF IsNA(df.rows[x][j]) \/ IsNA(df.rows[y][j])
    THEN \/ ~IsNA(df.rows[x][j])
         \/ IsNA(df.rows[y][j]) /\ x < y
    ELSE IF ElemCompare(df.types[j], df.rows[x][j], "<", df.rows[y][j]) THEN ~reverse
    ELSE IF ElemCompare(df.types[j], df.rows[y][j], "<", df.rows[x][j]) THEN reverse
    ELSE x < y

\* The positions of the given rows of the frame, sorted on column j
SortedOn(df, S, j, reverse) ==
    CHOOSE p \in Perms(S) :
       \A a, b \in 1..Cardinality(S) : a < b => Precedes(df, j, reverse, p[a], p[b])

\* What ApplyOrderBy returned is the table sorted on the column
OrderedBy(column, reverse) ==
    /\ err = ""
    /\ Shown.names = Loaded0.names
    /\ Shown.rows =
          RowsAt(Loaded0.rows,
                 SortedOn(Loaded0, 1..Nrow(Loaded0), ColIndex(Loaded0, column), reverse))

\* C16 as stated: ApplyOrderBy sorts upwards on the column when the clause has
\* no direction or the direction asc, downwards for desc, and returns the
\* invalid-direction error for any other second token; the empty text returns
\* the table unchanged.
C16_OrderByDirectionAsWritten ==
    Ended("ApplyOrderBy")
       => \A parts \in {Fields(opts.Order)} :
             /\ opts.Order = <<>> => err = "" /\ Shown = Loaded0
             /\ (Len(parts) >= 2 /\ parts[2] \notin {Asc, Desc})
                   => err = "InvalidDirection" /\ Shown = Loaded0
             /\ (Len(parts) >= 1 /\ ColIndex(Loaded0, parts[1]) > 0)
                   => /\ (Len(parts) = 1 \/ parts[2] = Asc) => OrderedBy(parts[1], FALSE)
                      /\ (Len(parts) >= 2 /\ parts[2] = Desc) => OrderedBy(parts[1], TRUE)

\* C16, amended: the same with the direction compared without regard to the
\* case of its letters: asc and ASC sort upwards, desc and DESC downwards, and
\* any second token that is neither gets the invalid-direction error.
C16_OrderByDirection ==
    Ended("ApplyOrderBy")
       => \A parts \in {Fields(opts.Order)} :
             /\ opts.Order = <<>> => err = "" /\ Shown = Loaded0
             /\ (Len(parts) >= 2 /\ ToLower(parts[2]) \notin {Asc, Desc})
                   => err = "InvalidDirection" /\ Shown = Loaded0
             /\ (Len(parts) >= 1 /\ ColIndex(Loaded0, parts[1]) > 0)
                   => /\ (Len(parts) = 1 \/ ToLower(parts[2]) = Asc)
                         => OrderedBy(parts[1], FALSE)
                      /\ (Len(parts) >= 2 /\ ToLower(parts[2]) = Desc)
                         => OrderedBy(parts[1], TRUE)

\* ApplyOrderBy was called with "age DESC" on a table of three rows whose
\* ages rise, and returned them last to first
C16_Witness ==
    /\ Ended("ApplyOrderBy")
    /\ opts.Order = age \o <<" ", "D", "E", "S", "C">>
    /\ err = ""
    /\ Nrow(Loaded0) = 3
    /\ Loaded0.types[3] = "int"
    /\ \A i \in 1..2 : Atoi(Loaded0.rows[i][3]).val < Atoi(Loaded0.rows[i + 1][3]).val
    /\ Shown.rows = <<Loaded0.rows[3], Loaded0.rows[2], Loaded0.rows[1]>>

\* The smaller of two numbers
Min(a, b) == IF a < b THEN a ELSE b

\* C17: ApplyLimit with limit N returns the table as it is when N <= 0 or N is
\* the number of rows or more, and otherwise the first N rows in their order,
\* with the same columns; for N > 0 the result has min(N, rows) rows.
C17_LimitFirstRows ==
    Ended("ApplyLimit")
       => /\ err = ""
          /\ (opts.Limit <= 0 \/ opts.Limit >= Nrow(Loaded0)) => Shown = Loaded0
          /\ (opts.Limit > 0 /\ opts.Limit < Nrow(Loaded0))
                => /\ Shown.names = Loaded0.names
                   /\ Shown.types = Loaded0.types
                   /\ Shown.rows = SubSeq(Loaded0.rows, 1, opts.Limit)
          /\ opts.Limit > 0 => Nrow(Shown) = Min(opts.Limit, Nrow(Loaded0))

\* ApplyLimit was called with limit 2 on a table of three different rows and
\* returned the first two
C17_Witness ==
    /\ Ended("ApplyLimit")
    /\ opts.Limit = 2
    /\ Nrow(Loaded0) = 3
    /\ Loaded0.rows[1] # Loaded0.rows[2] /\ Loaded0.rows[2] # Loaded0.rows[3]
    /\ Shown.rows = <<Loaded0.rows[1], Loaded0.rows[2]>>

\* The first n members of a sequence, all of them when n is not positive
FirstN(seq, n) == IF n <= 0 \/ n >= Len(seq) THEN seq ELSE SubSeq(seq, 1, n)

\* The positions of the rows that pass the WHERE text, in the order the
\* ORDER BY text asks for
PassingOrdered(df, whereCond, parts) ==
    IF Len(parts) = 0 THEN Passing(df, whereCond)
    ELSE SortedOn(df, {Passing(df, whereCond)[k] : k \in DOMAIN Passing(df, whereCond)},
                  ColIndex(df, parts[1]), Len(parts) >= 2 /\ ToLower(parts[2]) = Desc)

Scenario18 == << << <<"1">>, <<"A">>, <<"2", "0">> >>,
                 << <<"2">>, <<"B">>, <<"3", "0">> >>,
                 << <<"3">>, <<"C">>, <<"4", "0">> >> >>

\* C18: a Select of all columns that ends without error prints the first
\* LIMIT rows of the rows that pass WHERE put in the order of ORDER BY: the
\* filter runs first, then the sort, then the limit.  On the table (1,A,20),
\* (2,B,30), (3,C,40), WHERE age > 25, ORDER BY age desc, LIMIT 1 print the
\* single row (3,C,40).
C18_FilterThenSortThenLimit ==
    /\ (Ended("Select") /\ opts.Select = <<>> /\ err = "")
       => /\ out.kind = "frame"
          /\ Shown.rows =
               RowsAt(Loaded0.rows,
                      FirstN(PassingOrdered(Loaded0, opts.Where, Fields(opts.Order)),
                             opts.Limit))
          /\ out.footer = Nrow(Shown)
    /\ (/\ Ended("Select")
        /\ before.rows = Scenario18
        /\ opts.Select = <<>>
        /\ opts.Where = age \o <<" ", ">", " ", "2", "5">>
        /\ opts.Order = age \o <<" ", "d", "e", "s", "c">>
        /\ opts.Limit = 1)
       => err = "" /\ Shown.rows = <<Scenario18[3]>>

\* The Select of the scenario ran and printed one row
C18_Witness ==
    /\ Ended("Select")
    /\ before.rows = Scenario18
    /\ opts.Select = <<>>
    /\ opts.Where = age \o <<" ", ">", " ", "2", "5">>
    /\ opts.Order = age \o <<" ", "d", "e", "s", "c">>
    /\ opts.Limit = 1
    /\ Nrow(Shown) = 1
    /\ out.footer = 1

\* The signature of a row of cells: the cells joined by "|"
Signature(row) == JoinCells(row, 1)

\* C19: ApplyDistinct returns, with the same columns, the rows of the table
\* that no earlier row shares the signature of, in the order they have in the
\* table: of every signature the first row is kept and no other.  Applied to
\* what it returned it returns the same.
C19_DistinctKeepsFirstOfEach ==
    Ended("ApplyDistinct")
       => /\ err = ""
          /\ Shown.names = Loaded0.names
          /\ Shown.rows =
               RowsAt(Loaded0.rows,
                      Increasing({i \in 1..Nrow(Loaded0) :
                                    \A h \in 1..(i - 1) :
                                       Signature(Loaded0.rows[h]) # Signature(Loaded0.rows[i])}))
          /\ \A i \in 1..Nrow(Loaded0) : \E k \in 1..Nrow(Shown) :
                Signature(Shown.rows[k]) = Signature(Loaded0.rows[i])
          /\ \A k, l \in 1..Nrow(Shown) :
                k # l => Signature(Shown.rows[k]) # Signature(Shown.rows[l])
          /\ ApplyDistinct(Shown) = Shown

\* ApplyDistinct was called on a table of three rows whose first and last are
\* the same row, and returned the first and the second
C19_Witness ==
    /\ Ended("ApplyDistinct")
    /\ Nrow(Loaded0) = 3
    /\ Loaded0.rows[1] = Loaded0.rows[3]
    /\ Loaded0.rows[1] # Loaded0.rows[2]
    /\ Shown.rows = <<Loaded0.rows[1], Loaded0.rows[2]>>

\* The members of a sequence of rows without the ones that repeat an earlier one
Deduplicated(rows) ==
    RowsAt(rows, Increasing({i \in 1..Len(rows) : \A h \in 1..(i - 1) : rows[h] # rows[i]}))

\* C20: a Select whose column list is "DISTINCT name" (or "distinct name"), on
\* a table that has the column name, ends without error and prints the names
\* of the rows that pass WHERE, every name once.
C20_DistinctKeywordSelects ==
    (/\ Ended("Select")
     /\ opts.Select \in {DistinctName, ToLower(DistinctName)}
     /\ NoWhereError(ops, opts.Where)
     /\ opts.Order = <<>>
     /\ opts.Limit = 0)
       => /\ err = ""
          /\ out.kind = "frame"
          /\ Shown.names = <<name>>
          /\ Shown.rows =
               Deduplicated([k \in 1..Len(Passing(Loaded0, opts.Where)) |->
                               <<Loaded0.rows[Passing(Loaded0, opts.Where)[k]][2]>>])

---------------------------------------------------------------------------
(* Properties of the aggregations.  The words they are stated in:           *)

CountAll == <<"C", "O", "U", "N", "T", "(", "*", ")">>

\* The select lists that are one COUNT, and the label each is printed under
CountLabel ==
    (CountAll :> <<"C", "O", "U", "N", "T", "(">> \o id \o <<")">>)
    @@ (<<"C", "O", "U", "N", "T", "(">> \o age \o <<")">>
           :> <<"C", "O", "U", "N", "T", "(">> \o age \o <<")">>)
    @@ (<<"c", "o", "u", "n", "t", "(", " ">> \o name \o <<" ", ")">>
           :> <<"C", "O", "U", "N", "T", "(">> \o name \o <<")">>)

\* The aggregation ended without error and printed the results
Printed == err = "" /\ out.kind = "results"

\* C21: a Select of one COUNT over a column of the table, the WHERE text
\* being empty or a condition on a column of the table, ends without error
\* and prints one result: the number of rows that pass WHERE, 0 when none
\* does; COUNT(*) is printed under the label of the first column and is that
\* same number.
C21_CountIsFilteredRowCount ==
    (/\ Ended("Select")
     /\ opts.Select \in DOMAIN CountLabel
     /\ NoWhereError(ops, opts.Where))
       => /\ Printed
          /\ DOMAIN out.results = {CountLabel[opts.Select]}
          /\ out.results[CountLabel[opts.Select]] =
                [kind |-> "int", val |-> Len(Passing(Loaded0, opts.Where))]

\* COUNT(*) ran on the scenario table with WHERE age > 100 and printed 0
C21_Witness ==
    /\ Ended("Select")
    /\ before.rows = Scenario18
    /\ opts.Select = CountAll
    /\ opts.Where = age \o <<" ", ">", " ", "1", "0", "0">>
    /\ Printed
    /\ out.results[CountLabel[CountAll]].val = 0

Avg == <<"A", "V", "G">>

\* The select lists that are one AVG, and the column each is over
AvgColumn ==
    (Avg \o <<"(">> \o age \o <<")">> :> age) @@ (Avg \o <<"(">> \o name \o <<")">> :> name)

\* C22: a Select of AVG over a column of the table in which no cell of the
\* rows that pass WHERE is a number (a column of texts, no passing row at
\* all) ends without error and prints 0.
C22_AvgOfNoNumbersIsZero ==
    (/\ Ended("Select")
     /\ opts.Select \in DOMAIN AvgColumn
     /\ NoWhereError(ops, opts.Where)
     /\ \A k \in DOMAIN Passing(Loaded0, opts.Where) :
           ~Atoi(before.rows[Passing(Loaded0, opts.Where)[k]]
                            [IndexIn(AvgColumn[opts.Select], before.names)]).ok)
       => /\ Printed
          /\ \A r \in {out.results[Avg \o <<"(">> \o AvgColumn[opts.Select] \o <<")">>]} :
                r.kind = "float" /\ ~r.nan /\ r.num = 0

\* The select lists that are one MIN or one MAX: the function, its column
Extremes ==
    {[text |-> f \o <<"(">> \o c \o <<")">>, smallest |-> f = <<"M", "I", "N">>, column |-> c] :
        f \in {<<"M", "I", "N">>, <<"M", "A", "X">>}, c \in {age, name}}

\* The cells the passing rows have in the column, as the file has them
PassingCells(f, df, whereCond, column) ==
    {f.rows[Passing(df, whereCond)[k]][IndexIn(column, f.names)] :
        k \in DOMAIN Passing(df, whereCond)}

\* Cell a is below cell b: as numbers in a numeric column, else as texts
Below(t, a, b) ==
    IF t = "int" THEN Atoi(a).ok /\ Atoi(b).ok /\ Atoi(a).val < Atoi(b).val
    ELSE TextLess(a, b)

\* C23: a Select of MIN or MAX over a column of the table ends without error;
\* when no row passes WHERE it prints the no-value sentinel, and otherwise a
\* cell of the column that no passing cell is below (MIN) or above (MAX),
\* cells being compared as numbers in a numeric column and as texts in any
\* other.
C23_ExtremeIsACellOfTheColumn ==
    \A e \in Extremes :
       (Ended("Select") /\ opts.Select = e.text /\ NoWhereError(ops, opts.Where))
          => \A cells \in {PassingCells(before, Loaded0, opts.Where, e.column)} :
                /\ Printed
                /\ cells = {} => out.results[e.text].kind = "nil"
                /\ cells # {}
                      => /\ out.results[e.text].kind = "elem"
                         /\ out.results[e.text].text \in cells
                         /\ \A c \in cells :
                               \A t \in {Loaded0.types[ColIndex(Loaded0, e.column)]} :
                                  IF e.smallest THEN ~Below(t, c, out.results[e.text].text)
                                  ELSE ~Below(t, out.results[e.text].text, c)

\* The function, column and label of the items of the select lists of several
\* aggregates, in list order
Sum == <<"S", "U", "M">>
SpecsOf ==
    (CountAll \o <<",">> \o Sum \o <<"(">> \o zz \o <<")">>
        :> << [f |-> "COUNT", column |-> id], [f |-> "SUM", column |-> zz] >>)
    @@ (Sum \o <<"(">> \o zz \o <<")", ",">> \o Avg \o <<"(">> \o name \o <<")">>
        :> << [f |-> "SUM", column |-> zz], [f |-> "AVG", column |-> name] >>)
    @@ (Avg \o <<"(">> \o name \o <<")", ",">> \o Sum \o <<"(">> \o zz \o <<")">>
        :> << [f |-> "AVG", column |-> name], [f |-> "SUM", column |-> zz] >>)
    @@ (<<"M", "I", "N", "(">> \o age \o <<")", ",", " ", "M", "A", "X", "(">> \o age \o <<")">>
        :> << [f |-> "MIN", column |-> age], [f |-> "MAX", column |-> age] >>)

\* The error of one aggregate on the table: its column is unknown, or it is a
\* SUM or AVG over a column that is not numeric
SpecError(df, s) ==
    IF ColIndex(df, s.column) = 0 THEN "UnknownColumn"
    ELSE IF s.f \in {"SUM", "AVG"} /\ df.types[ColIndex(df, s.column)] # "int" THEN "TypeError"
    ELSE ""

\* C24: in a Select of several aggregates the items are taken in list order,
\* and the first whose column is unknown, or which fails otherwise, ends the
\* query with its error: nothing is printed, the results of the items before
\* it included.  When no item fails every result is printed.
C24_FirstFailingSpecAborts ==
    (/\ Ended("Select")
     /\ opts.Select \in DOMAIN SpecsOf
     /\ NoWhereError(ops, opts.Where))
       => \A specs \in {SpecsOf[opts.Select]} :
             /\ \A k \in DOMAIN specs :
                   (/\ SpecError(Loaded0, specs[k]) # ""
                    /\ \A h \in 1..(k - 1) : SpecError(Loaded0, specs[h]) = "")
                      => /\ err = SpecError(Loaded0, specs[k])
                         /\ out.kind = "none"
                         /\ out.results = EmptyMap
                         /\ "PrintAggregationResults" \notin {log[i] : i \in DOMAIN log}
             /\ (\A k \in DOMAIN specs : SpecError(Loaded0, specs[k]) = "")
                   => Printed /\ Cardinality(DOMAIN out.results) = Len(specs)

\* COUNT(*),SUM(zz) ran on a table of two rows or more: the count is valid,
\* the sum names an unknown column, and nothing was printed
C24_Witness ==
    /\ Ended("Select")
    /\ opts.Select = CountAll \o <<",">> \o Sum \o <<"(">> \o zz \o <<")">>
    /\ Nrow(Loaded0) >= 2
    /\ err = "UnknownColumn"
    /\ out.kind = "none"
    /\ out.results = EmptyMap

\* C25: after a Delete with a condition on a column of the table, every row
\* the source file had that does not satisfy the condition is still a row of
\* the source file, whatever its cells hold, the character | included.
C25_DeleteRemovesOnlyMatchingRows ==
    (Ended("Delete") /\ ValidWhere(ops, opts.Where))
       => \A matching \in {Matching(Loaded0, opts.Where)} :
             \A i \in 1..Nrow(Loaded0) :
                i \notin matching
                   => \E k \in 1..Len(file.rows) : file.rows[k] = before.rows[i]


---------------------------------------------------------------------------
(* Properties of a whole invocation.                                        *)

\* The operations in the order the switch of runCSVQL tries them
Priority == <<"ShowColumns", "Insert", "Update", "Delete", "Select">>

\* The flags of the invocation ask for the operation; Select is the default
Given(options, case) ==
    CASE case = "ShowColumns" -> options.Columns
      [] case = "Insert" -> options.Insert # <<>>
      [] case = "Update" -> options.Update # <<>>
      [] case = "Delete" -> options.Delete
      [] OTHER -> TRUE

\* C26: an invocation whose file could not be loaded ran no operation; any
\* other invocation ran exactly the first operation of the priority list
\* that its flags ask for, and nothing of the others: the
\* listing leaves the file, an insert adds one row and removes none, an
\* update keeps the number of rows, a delete adds none, and only a Select
\* prints a frame or results.
C26_HighestPriorityOperationRuns ==
    /\ (pc = "done" /\ ran = "") => (ops.Headers = <<>> /\ file = before /\ out = NoOut)
    /\ (pc = "done" /\ ran # "") =>
       /\ \E k \in 1..Len(Priority) :
             /\ ran = Priority[k]
             /\ Given(opts, Priority[k])
             /\ \A h \in 1..(k - 1) : ~Given(opts, Priority[h])
       /\ ran = "ShowColumns" => (file = before /\ out.kind = "columns")
       /\ ran # "ShowColumns" => out.kind # "columns"
       /\ ran # "Select" => out.kind \notin {"frame", "results"}
       /\ ran \in {"ShowColumns", "Insert", "Update", "Delete"} => ~file.export
       /\ (ran = "Insert" /\ err = "") => Len(file.rows) = Len(before.rows) + 1
       /\ (ran = "Insert" /\ err # "") => file = before
       /\ ran = "Update" => Len(file.rows) = Len(before.rows)
       /\ ran = "Delete" => Len(file.rows) <= Len(before.rows)
       /\ ran = "Select" => affected = -1

\* An invocation with both insert and delete set inserted a row into a file
\* that had rows, and all of them are still there
C26_Witness ==
    /\ pc = "done"
    /\ opts.Insert # <<>>
    /\ opts.Delete
    /\ ~opts.Columns
    /\ err = ""
    /\ Len(before.rows) > 0
    /\ Len(file.rows) = Len(before.rows) + 1


\* C27: as long as the source file holds a table written by Insert, Update
\* and Delete (not an export of the read path), it has a header with the
\* column names of the first load in their order, every row of it has one
\* cell per column, and a mutation that ended left the names it loaded.
C27_SavedTableKeepsItsColumns ==
    /\ ~file.export
          => /\ file.header
             /\ file.names = Headers0
             /\ \A i \in 1..Len(file.rows) : Len(file.rows[i]) = Len(Headers0)
    /\ (pc = "done" /\ ran \in Mutations /\ ~file.export)
          => file.names = ops.Headers

\* A Delete saved some of the rows of a file that an earlier Insert or
\* Update of the same history had written
C27_Witness ==
    /\ runs = 2
    /\ Ended("Delete")
    /\ Saved
    /\ before \notin Files0
    /\ Len(file.rows) >= 1
    /\ Len(file.rows) < Len(before.rows)


\* C28: a Select that ended, an aggregation query included, has left the
\* source file as it was loaded, whatever its select list, condition, order,
\* limit, raw flag and output file.
C28_SelectLeavesSource ==
    Ended("Select")
       => /\ file.header = before.header
          /\ file.names = before.names
          /\ file.rows = before.rows


---------------------------------------------------------------------------
(* Properties of the read path and the aggregations as a whole.             *)

\* The text names columns of the table only
AllListedExist(o, text) ==
    \A k \in DOMAIN Listed(text) : IndexIn(Listed(text)[k], o.Headers) > 0

\* C29: a Select that projects a list of columns of the table and orders by
\* a column of the table that is not in the list either ends with an error
\* or prints a valid table with all the rows that pass WHERE (the first
\* LIMIT of them).
C29_OrderColumnOutsideSelectList ==
    (/\ Ended("Select")
     /\ opts.Select # <<>>
     /\ AllListedExist(ops, opts.Select)
     /\ NoWhereError(ops, opts.Where)
     /\ Len(Fields(opts.Order)) >= 1
     /\ IndexIn(Fields(opts.Order)[1], ops.Headers) > 0
     /\ \A k \in DOMAIN Listed(opts.Select) : Listed(opts.Select)[k] # Fields(opts.Order)[1])
       => \/ err # ""
          \/ /\ out.kind = "frame"
             /\ ~Shown.Err
             /\ Shown.names = Listed(opts.Select)
             /\ Nrow(Shown) =
                   IF opts.Limit > 0
                   THEN Min(opts.Limit, Len(Passing(Loaded0, opts.Where)))
                   ELSE Len(Passing(Loaded0, opts.Where))


\* C30: an aggregation query that ends without error prints one result for
\* every item of its comma-separated select list.
C30_OneResultPerListItem ==
    (Ended("Select") /\ Printed)
       => Cardinality(DOMAIN out.results) = Len(Split(opts.Select, <<",">>))

=============================================================================
